---- MODULE Spec2Model ----
(***************************************************************************)
(* Model of roomodes-validator/validate-roomodes.js: the validation and    *)
(* auto-fix of a .roomodes document (validateRoomodes, validateGroups,     *)
(* writeFixedFile, main).                                                  *)
(*                                                                         *)
(* JavaScript strings are sequences of one-character strings, so that the  *)
(* character-level operations of the code (match, replace, toLowerCase,    *)
(* includes, startsWith) are computed as the code computes them.           *)
(* JSON values are records [k, s]: k is the kind of the value and s is     *)
(* the result of String(value) as a character sequence (for a string, the  *)
(* string itself).                                                         *)
(***************************************************************************)
EXTENDS Integers, Sequences, FiniteSets, TLC

\* ------------------------------------------------------------------------
\* Bounds of the model
\* ------------------------------------------------------------------------
MaxModes == 2      \* records in the records container
MaxGroups == 2     \* entries of a groups array
MaxPatLen == 3     \* characters of a generated fileRegex pattern

\* ------------------------------------------------------------------------
\* Characters and strings
\* ------------------------------------------------------------------------
BS == "\\"   \* the one-character string holding a backslash

LowerLetters ==
  {"a","b","c","d","e","f","g","h","i","j","k","l","m",
   "n","o","p","q","r","s","t","u","v","w","x","y","z"}

Digits == {"0","1","2","3","4","5","6","7","8","9"}

UpperLetters ==
  <<"A","B","C","D","E","F","G","H","I","J","K","L","M",
    "N","O","P","Q","R","S","T","U","V","W","X","Y","Z">>

LowerOfUpper ==
  <<"a","b","c","d","e","f","g","h","i","j","k","l","m",
    "n","o","p","q","r","s","t","u","v","w","x","y","z">>

\* String.prototype.toLowerCase on one character
LowerChar(c) ==
  IF \E i \in 1..26 : UpperLetters[i] = c
  THEN LowerOfUpper[CHOOSE i \in 1..26 : UpperLetters[i] = c]
  ELSE c

\* String.prototype.toUpperCase on one character
UpperChar(c) ==
  IF \E i \in 1..26 : LowerOfUpper[i] = c
  THEN UpperLetters[CHOOSE i \in 1..26 : LowerOfUpper[i] = c]
  ELSE c

ToLowerCase(s) == [i \in 1..Len(s) |-> LowerChar(s[i])]

\* s.slice(n - 1) with 1-based n: the suffix of s that starts at position n
SliceFrom(s, n) == IF n > Len(s) THEN << >> ELSE SubSeq(s, n, Len(s))

\* s.startsWith(p)
StartsWith(s, p) == Len(p) <= Len(s) /\ SubSeq(s, 1, Len(p)) = p

\* s.includes(p)
Includes(s, p) ==
  \E i \in 1..(Len(s) + 1) :
     i + Len(p) - 1 <= Len(s) /\ SubSeq(s, i, i + Len(p) - 1) = p

\* template literal `${n}` for a natural number n
RECURSIVE NatToStr(_)
NatToStr(n) ==
  LET d == CASE n % 10 = 0 -> "0" [] n % 10 = 1 -> "1" [] n % 10 = 2 -> "2"
             [] n % 10 = 3 -> "3" [] n % 10 = 4 -> "4" [] n % 10 = 5 -> "5"
             [] n % 10 = 6 -> "6" [] n % 10 = 7 -> "7" [] n % 10 = 8 -> "8"
             [] OTHER -> "9"
  IN IF n < 10 THEN <<d>> ELSE NatToStr(n \div 10) \o <<d>>

YouAreRoo == <<"Y","o","u"," ","a","r","e"," ","R","o","o">>

\* ------------------------------------------------------------------------
\* JSON values
\* ------------------------------------------------------------------------
\* kinds: "absent" (the property is not there: undefined), "null", "str",
\* "num", "bool", "arr" (a one-element array holding the string s, or the
\* empty array when s is empty) and "obj" (a plain object).
Absent == [k |-> "absent", s |-> << >>]
Null == [k |-> "null", s |-> << >>]
Str(s) == [k |-> "str", s |-> s]
Num(s) == [k |-> "num", s |-> s]
Arr(s) == [k |-> "arr", s |-> s]
JsonTrue == [k |-> "bool", s |-> <<"t","r","u","e">>]
Obj == [k |-> "obj", s |-> <<"[","o","b","j","e","c","t"," ","O","b","j","e","c","t","]">>]

\* the truthiness test of `!value` and `value ? :` and `value || other`
Truthy(v) ==
  CASE v.k = "absent" -> FALSE
    [] v.k = "null" -> FALSE
    [] v.k = "str" -> v.s # << >>
    [] v.k = "num" -> v.s # <<"0">>
    [] v.k = "bool" -> v.s = <<"t","r","u","e">>
    [] OTHER -> TRUE

IsString(v) == v.k = "str"

\* String(value) for a value that is there
StringOf(v) == Str(v.s)

\* ------------------------------------------------------------------------
\* Slug checks and fixes (validateRoomodes, the slug block)
\* ------------------------------------------------------------------------
IsSlugChar(c) == c \in LowerLetters \cup Digits \cup {"-"}

\* s.match(/^[a-z0-9-]+$/)
MatchesSlugFormat(s) == Len(s) > 0 /\ \A i \in 1..Len(s) : IsSlugChar(s[i])

\* s.replace(/[^a-z0-9-]/g, '-')
ReplaceDisallowed(s) == [i \in 1..Len(s) |-> IF IsSlugChar(s[i]) THEN s[i] ELSE "-"]

\* s.replace(/-+/g, '-')
RECURSIVE CollapseHyphens(_)
CollapseHyphens(s) ==
  IF Len(s) < 2 THEN s
  ELSE IF s[1] = "-" /\ s[2] = "-" THEN CollapseHyphens(Tail(s))
  ELSE <<s[1]>> \o CollapseHyphens(Tail(s))

\* s.replace(/^-|-$/g, '')
TrimHyphens(s) ==
  LET a == IF Len(s) > 0 /\ s[1] = "-" THEN Tail(s) ELSE s
  IN IF Len(a) > 0 /\ a[Len(a)] = "-" THEN SubSeq(a, 1, Len(a) - 1) ELSE a

\* FixSlugFormat without toLowerCase
FixSlugFormat_NoLowerCase(s) == TrimHyphens(CollapseHyphens(ReplaceDisallowed(s)))

\* the fixedSlug expression of the slug-format fix
FixSlugFormat(s) == TrimHyphens(CollapseHyphens(ReplaceDisallowed(ToLowerCase(s))))

\* the fixedSlug expression of the duplicate fix: `${mode.slug}-${index + 1}`
FixDuplicateSlug(s, index) == s \o <<"-">> \o NatToStr(index + 1)

\* `mode-${index + 1}`
PlaceholderSlug(index) == <<"m","o","d","e","-">> \o NatToStr(index + 1)

\* `Mode ${index + 1}`
PlaceholderName(index) == <<"M","o","d","e"," ">> \o NatToStr(index + 1)

\* s.replace(/-./g, x => x[1].toUpperCase())
RECURSIVE CamelAfterHyphen(_)
CamelAfterHyphen(s) ==
  IF Len(s) = 0 THEN s
  ELSE IF s[1] = "-" /\ Len(s) >= 2
       THEN <<UpperChar(s[2])>> \o CamelAfterHyphen(SliceFrom(s, 3))
       ELSE <<s[1]>> \o CamelAfterHyphen(Tail(s))

\* slug.charAt(0).toUpperCase() + slug.slice(1).replace(/-./g, ...)
NameFromSlug(s) ==
  (IF Len(s) > 0 THEN <<UpperChar(s[1])>> ELSE << >>) \o CamelAfterHyphen(SliceFrom(s, 2))

\* `You are Roo, a ${name.toLowerCase()} assistant.`
PlaceholderRole(name) ==
  YouAreRoo \o <<",", " ", "a", " ">> \o ToLowerCase(name)
            \o <<" ","a","s","s","i","s","t","a","n","t",".">>

\* `You are Roo, ${r.charAt(0).toLowerCase() + r.slice(1)}`
PrependLeadIn(r) ==
  YouAreRoo \o <<",", " ">>
            \o (IF Len(r) > 0 THEN <<LowerChar(r[1])>> ELSE << >>) \o SliceFrom(r, 2)

\* ------------------------------------------------------------------------
\* Regular expressions of validateGroups
\* ------------------------------------------------------------------------
\* new RegExp(s) does not throw.  The patterns of the model are written with
\* backslash, dot, parentheses and ordinary characters: a backslash escapes
\* the character after it and must not end the pattern, and parentheses
\* must balance.
RECURSIVE CompilesFrom(_, _, _)
CompilesFrom(s, i, depth) ==
  IF i > Len(s) THEN depth = 0
  ELSE IF s[i] = BS THEN i + 1 <= Len(s) /\ CompilesFrom(s, i + 2, depth)
  ELSE IF s[i] = "(" THEN CompilesFrom(s, i + 1, depth + 1)
  ELSE IF s[i] = ")" THEN depth > 0 /\ CompilesFrom(s, i + 1, depth - 1)
  ELSE CompilesFrom(s, i + 1, depth)

RegExpCompiles(s) == CompilesFrom(s, 1, 0)

\* InvalidEscaping without the lookbehind: /\\([^\\])/.test(s)
InvalidEscaping_NoLookbehind(s) ==
  \E i \in 1..Len(s) : s[i] = BS /\ i + 1 <= Len(s) /\ s[i + 1] # BS

\* /(?<!\\)\\([^\\])/.test(s)
InvalidEscaping(s) ==
  \E i \in 1..Len(s) :
     /\ s[i] = BS
     /\ (i = 1 \/ s[i - 1] # BS)
     /\ i + 1 <= Len(s)
     /\ s[i + 1] # BS

\* s.replace(/\\(.)/g, '\\$1'): every backslash followed by a character is
\* replaced by the replacement string, a backslash followed by group 1.
RECURSIVE ReplaceEscapes(_)
ReplaceEscapes(s) ==
  IF Len(s) = 0 THEN s
  ELSE IF s[1] = BS /\ Len(s) >= 2
       THEN <<BS, s[2]>> \o ReplaceEscapes(SliceFrom(s, 3))
       ELSE <<s[1]>> \o ReplaceEscapes(Tail(s))

\* ------------------------------------------------------------------------
\* Group entries and validateGroups
\* ------------------------------------------------------------------------
\* A restriction is [k, fileRegex, description]: k = "obj" for an object (or
\* an array: typeof gives 'object' and its two properties are read the same
\* way), "null" for null and "prim" for a string, number or boolean.
\* A group entry is [k, tag, r]: k = "str" for a bare string (tag), "pair"
\* for a two-element array [tag, r] and "other" for every other value.
VALID_TOOL_GROUPS == {"read", "edit", "browser", "command", "mcp"}

NoRestriction == [k |-> "prim", fileRegex |-> Absent, description |-> Absent]
NullRestriction == [k |-> "null", fileRegex |-> Absent, description |-> Absent]
Restriction(re, d) == [k |-> "obj", fileRegex |-> re, description |-> d]
Bare(tag) == [k |-> "str", tag |-> tag, r |-> NoRestriction]
Pair(tag, r) == [k |-> "pair", tag |-> tag, r |-> r]
OtherEntry == [k |-> "other", tag |-> "", r |-> NoRestriction]

MatchAll == Str(<<".", "*">>)
AllFiles == Str(<<"A","l","l"," ","f","i","l","e","s">>)
DefaultRestriction == Restriction(MatchAll, AllFiles)

Err(code, at) == [code |-> code, at |-> at]

\* RegexCheck without `fixedRegex = ".*"` in the catch block
RegexCheck_KeepsInvalid(re, index, fixMode) ==
  IF ~Truthy(re)
  THEN [errors |-> <<Err("fileRegex-missing", index)>>, warnings |-> << >>,
        fixedRegex |-> IF fixMode THEN MatchAll ELSE re]
  ELSE IF ~RegExpCompiles(re.s)
  THEN [errors |-> <<Err("regex-invalid", index)>>, warnings |-> << >>,
        fixedRegex |-> re]
  ELSE IF ~InvalidEscaping(re.s)
  THEN [errors |-> << >>, warnings |-> << >>, fixedRegex |-> re]
  ELSE IF ~fixMode
  THEN [errors |-> <<Err("regex-escaping", index)>>,
        warnings |-> <<Err("double-backslashes", index)>>, fixedRegex |-> re]
  ELSE IF IsString(re)
  THEN [errors |-> <<Err("regex-escaping", index)>>,
        warnings |-> <<Err("double-backslashes", index)>>,
        fixedRegex |-> Str(ReplaceEscapes(re.s))]
  ELSE [errors |-> <<Err("regex-escaping", index), Err("regex-invalid", index)>>,
        warnings |-> <<Err("double-backslashes", index)>>,
        fixedRegex |-> MatchAll]

\* The fileRegex block of validateGroups (the statements between
\* `let fixedRegex` and `let fixedDescription`): the errors and warnings it
\* pushes and the final fixedRegex.  new RegExp and test work on
\* String(fileRegex); replace is a method of strings only, so that in fix
\* mode a flagged fileRegex that is not a string throws inside the try
\* block and the catch block pushes a second error.
RegexCheck(re, index, fixMode) ==
  IF ~Truthy(re)
  THEN [errors |-> <<Err("fileRegex-missing", index)>>, warnings |-> << >>,
        fixedRegex |-> IF fixMode THEN MatchAll ELSE re]
  ELSE IF ~RegExpCompiles(re.s)
  THEN [errors |-> <<Err("regex-invalid", index)>>, warnings |-> << >>,
        fixedRegex |-> IF fixMode THEN MatchAll ELSE re]
  ELSE IF ~InvalidEscaping(re.s)
  THEN [errors |-> << >>, warnings |-> << >>, fixedRegex |-> re]
  ELSE IF ~fixMode
  THEN [errors |-> <<Err("regex-escaping", index)>>,
        warnings |-> <<Err("double-backslashes", index)>>, fixedRegex |-> re]
  ELSE IF IsString(re)
  THEN [errors |-> <<Err("regex-escaping", index)>>,
        warnings |-> <<Err("double-backslashes", index)>>,
        fixedRegex |-> Str(ReplaceEscapes(re.s))]
  ELSE [errors |-> <<Err("regex-escaping", index), Err("regex-invalid", index)>>,
        warnings |-> <<Err("double-backslashes", index)>>,
        fixedRegex |-> MatchAll]

\* GroupEntry with the description looked at only when fileRegex has no
\* error
GroupEntry_FirstErrorOnly(group, index, fixMode) ==
  LET none == << >>
      out(e, w, f) == [errors |-> e, warnings |-> w, fixed |-> f, thrown |-> FALSE]
  IN
  CASE group.k = "str" ->
         IF group.tag \in VALID_TOOL_GROUPS
         THEN out(none, none, IF fixMode THEN <<group>> ELSE none)
         ELSE out(<<Err("group-invalid", index)>>, none, none)
    [] group.k = "pair" ->
         LET badName == group.tag \notin VALID_TOOL_GROUPS
             nameErr == IF badName THEN <<Err("group-invalid", index)>> ELSE none
             fixedGroupName == IF badName /\ fixMode THEN "read" ELSE group.tag
             r == group.r
         IN
         IF r.k = "prim"
         THEN out(nameErr \o <<Err("restriction-type", index)>>, none,
                  IF fixMode THEN <<Pair(fixedGroupName, DefaultRestriction)>> ELSE none)
         ELSE IF r.k = "null"
         THEN [errors |-> nameErr, warnings |-> none, fixed |-> none, thrown |-> TRUE]
         ELSE
           LET rc == RegexCheck(r.fileRegex, index, fixMode)
               noDesc == ~Truthy(r.description)
               descErr == IF noDesc /\ rc.errors = none
                          THEN <<Err("description-missing", index)>> ELSE none
               fixedDescription == IF noDesc /\ fixMode THEN AllFiles ELSE r.description
           IN out(nameErr \o rc.errors \o descErr, rc.warnings,
                  IF fixMode
                  THEN <<Pair(fixedGroupName, Restriction(rc.fixedRegex, fixedDescription))>>
                  ELSE none)
    [] OTHER -> out(<<Err("group-format", index)>>, none, none)

\* One call of the forEach callback of validateGroups: the errors and
\* warnings it pushes, the entries it pushes on fixedGroups (none in check
\* mode) and whether it throws (reading a property of a null restriction).
GroupEntry(group, index, fixMode) ==
  LET none == << >>
      out(e, w, f) == [errors |-> e, warnings |-> w, fixed |-> f, thrown |-> FALSE]
  IN
  CASE group.k = "str" ->
         IF group.tag \in VALID_TOOL_GROUPS
         THEN out(none, none, IF fixMode THEN <<group>> ELSE none)
         ELSE out(<<Err("group-invalid", index)>>, none, none)
    [] group.k = "pair" ->
         LET badName == group.tag \notin VALID_TOOL_GROUPS
             nameErr == IF badName THEN <<Err("group-invalid", index)>> ELSE none
             fixedGroupName == IF badName /\ fixMode THEN "read" ELSE group.tag
             r == group.r
         IN
         IF r.k = "prim"
         THEN out(nameErr \o <<Err("restriction-type", index)>>, none,
                  IF fixMode THEN <<Pair(fixedGroupName, DefaultRestriction)>> ELSE none)
         ELSE IF r.k = "null"
         THEN [errors |-> nameErr, warnings |-> none, fixed |-> none, thrown |-> TRUE]
         ELSE
           LET rc == RegexCheck(r.fileRegex, index, fixMode)
               noDesc == ~Truthy(r.description)
               descErr == IF noDesc THEN <<Err("description-missing", index)>> ELSE none
               fixedDescription == IF noDesc /\ fixMode THEN AllFiles ELSE r.description
           IN out(nameErr \o rc.errors \o descErr, rc.warnings,
                  IF fixMode
                  THEN <<Pair(fixedGroupName, Restriction(rc.fixedRegex, fixedDescription))>>
                  ELSE none)
    [] OTHER -> out(<<Err("group-format", index)>>, none, none)

\* The forEach loop of validateGroups over groups[from..]: the accumulated
\* errors, warnings and fixedGroups; the loop stops where an entry throws.
RECURSIVE GroupsLoop(_, _, _, _)
GroupsLoop(groups, i, fixMode, acc) ==
  IF i > Len(groups) \/ acc.thrown THEN acc
  ELSE LET g == GroupEntry(groups[i], i - 1, fixMode)
       IN GroupsLoop(groups, i + 1, fixMode,
            [errors |-> acc.errors \o g.errors,
             warnings |-> acc.warnings \o g.warnings,
             fixed |-> acc.fixed \o g.fixed,
             thrown |-> g.thrown])

\* validateGroups without the final push of the default "read" group
validateGroups_NoDefault(groups, fixMode) ==
  GroupsLoop(groups, 1, fixMode,
    [errors |-> << >>, warnings |-> << >>, fixed |-> << >>, thrown |-> FALSE])
  @@ [fixedGroups |->
        GroupsLoop(groups, 1, fixMode,
          [errors |-> << >>, warnings |-> << >>, fixed |-> << >>, thrown |-> FALSE]).fixed]

\* validateGroups(groups, fixMode): { errors, warnings, fixedGroups }, or
\* thrown when the function is left by an exception.  fixedGroups is only
\* read in fix mode (it is null otherwise).
validateGroups(groups, fixMode) ==
  LET loop == GroupsLoop(groups, 1, fixMode,
                [errors |-> << >>, warnings |-> << >>, fixed |-> << >>, thrown |-> FALSE])
  IN [errors |-> loop.errors,
      warnings |-> loop.warnings,
      fixedGroups |-> IF fixMode /\ loop.fixed = << >> THEN <<Bare("read")>> ELSE loop.fixed,
      thrown |-> loop.thrown]

\* The values of the input entry that the entry pushed on fixedGroups holds
\* by reference.  fixedRestriction is a new object, fixedRegex starts as
\* restriction.fileRegex and fixedDescription as restriction.description;
\* each stays the value of the input unless a fix replaces it.  A string is
\* a primitive; an array or an object is shared.
KeptByReference(group, fixMode) ==
  IF fixMode /\ group.k = "pair" /\ group.r.k = "obj"
  THEN {v \in {group.r.fileRegex} :
          /\ RegexCheck(group.r.fileRegex, 0, fixMode).errors = << >>
          /\ v.k \in {"arr", "obj"}}
       \cup
       {v \in {group.r.description} : Truthy(v) /\ v.k \in {"arr", "obj"}}
  ELSE {}

\* The values of mode.groups that fixedContent.customModes[index].groups
\* holds by reference after the groups block: the mode is a JSON copy, and
\* fixedGroups replaces its groups only when validateGroups gave an error.
SharedWithInput(mode, fixMode) ==
  IF fixMode /\ mode.k = "obj" /\ mode.groups.k = "arr"
     /\ ~validateGroups(mode.groups.items, fixMode).thrown
     /\ validateGroups(mode.groups.items, fixMode).errors # << >>
  THEN UNION {KeptByReference(mode.groups.items[j], fixMode) :
                j \in 1..Len(mode.groups.items)}
  ELSE {}

\* ------------------------------------------------------------------------
\* Mode records and the per-mode checks of validateRoomodes
\* ------------------------------------------------------------------------
\* A groups value is [k, items]: k = "absent" for a value that is missing or
\* falsy, "other" for a truthy value that is no array, "arr" for an array.
\* A mode is [k, slug, name, roleDefinition, groups]: k = "obj" for an
\* object, "null" for null, "prim" for a string, number or boolean and "arr"
\* for an array; only an object has the four properties.
NoGroups == [k |-> "absent", items |-> << >>]
NotAnArray == [k |-> "other", items |-> << >>]
GroupsArr(items) == [k |-> "arr", items |-> items]

Mode(slug, name, role, groups) ==
  [k |-> "obj", slug |-> slug, name |-> name, roleDefinition |-> role, groups |-> groups]
NonObject(kind) ==
  [k |-> kind, slug |-> Absent, name |-> Absent, roleDefinition |-> Absent,
   groups |-> NoGroups]

\* fixedContent.customModes[index].field = v: the property is stored on an
\* object or an array and the assignment is ignored on a primitive value.
SetField(f, field, v) ==
  IF f.k \in {"obj", "arr"} THEN [f EXCEPT ![field] = v] ELSE f

\* JSON.parse(JSON.stringify(mode)): the named properties of an array are
\* not serialized.
JsonCopy(f) == IF f.k = "arr" THEN NonObject("arr") ELSE f

Diag(sev, code, rec, at) == [sev |-> sev, code |-> code, rec |-> rec, at |-> at]
Error(code, rec) == Diag("error", code, rec, -1)
Warning(code, rec) == Diag("warning", code, rec, -1)

\* The slug block: diagnostics printed, the fixed mode, the slugs seen, and
\* whether mode.slug.match throws (a truthy slug that is no string).
SlugCheck(mode, index, slugs, fixMode, f) ==
  IF ~Truthy(mode.slug)
  THEN [diags |-> <<Error("slug-missing", index)>>,
        fixed |-> IF fixMode THEN SetField(f, "slug", Str(PlaceholderSlug(index))) ELSE f,
        slugs |-> slugs, thrown |-> FALSE]
  ELSE IF ~IsString(mode.slug)
  THEN [diags |-> << >>, fixed |-> f, slugs |-> slugs, thrown |-> TRUE]
  ELSE
    LET s == mode.slug.s
        badFormat == ~MatchesSlugFormat(s)
        duplicate == s \in slugs
        f1 == IF badFormat /\ fixMode THEN SetField(f, "slug", Str(FixSlugFormat(s))) ELSE f
        f2 == IF duplicate /\ fixMode
              THEN SetField(f1, "slug", Str(FixDuplicateSlug(s, index))) ELSE f1
    IN [diags |-> (IF badFormat THEN <<Error("slug-format", index)>> ELSE << >>)
                  \o (IF duplicate THEN <<Error("slug-duplicate", index)>> ELSE << >>),
        fixed |-> f2,
        slugs |-> slugs \cup {s},
        thrown |-> FALSE]

\* The name block.
NameCheck(mode, index, fixMode, f) ==
  IF ~Truthy(mode.name)
  THEN [diags |-> <<Error("name-missing", index)>>,
        fixed |-> IF fixMode
                  THEN SetField(f, "name",
                         IF Truthy(mode.slug) THEN Str(NameFromSlug(mode.slug.s))
                         ELSE Str(PlaceholderName(index)))
                  ELSE f]
  ELSE [diags |-> << >>, fixed |-> f]

\* RoleCheck with the lead-in diagnostic printed as an error
RoleCheck_LeadInIsError(mode, index, fixMode, f) ==
  LET role == mode.roleDefinition IN
  IF ~Truthy(role)
  THEN IF fixMode /\ Truthy(mode.name) /\ ~IsString(mode.name)
       THEN [diags |-> <<Error("roleDefinition-missing", index)>>, fixed |-> f,
             thrown |-> TRUE]
       ELSE [diags |-> <<Error("roleDefinition-missing", index)>>,
             fixed |-> IF fixMode
                       THEN SetField(f, "roleDefinition",
                              Str(PlaceholderRole(IF Truthy(mode.name) THEN mode.name.s
                                                  ELSE PlaceholderName(index))))
                       ELSE f,
             thrown |-> FALSE]
  ELSE IF ~IsString(role)
  THEN [diags |-> <<Error("roleDefinition-type", index)>>,
        fixed |-> IF fixMode THEN SetField(f, "roleDefinition", StringOf(role)) ELSE f,
        thrown |-> FALSE]
  ELSE IF ~Includes(role.s, YouAreRoo)
  THEN [diags |-> <<Error("lead-in", index)>>,
        fixed |-> IF fixMode /\ ~StartsWith(f.roleDefinition.s, YouAreRoo)
                  THEN SetField(f, "roleDefinition", Str(PrependLeadIn(f.roleDefinition.s)))
                  ELSE f,
        thrown |-> FALSE]
  ELSE [diags |-> << >>, fixed |-> f, thrown |-> FALSE]

\* The roleDefinition block; in fix mode name.toLowerCase throws for a
\* truthy name that is no string.
RoleCheck(mode, index, fixMode, f) ==
  LET role == mode.roleDefinition IN
  IF ~Truthy(role)
  THEN IF fixMode /\ Truthy(mode.name) /\ ~IsString(mode.name)
       THEN [diags |-> <<Error("roleDefinition-missing", index)>>, fixed |-> f,
             thrown |-> TRUE]
       ELSE [diags |-> <<Error("roleDefinition-missing", index)>>,
             fixed |-> IF fixMode
                       THEN SetField(f, "roleDefinition",
                              Str(PlaceholderRole(IF Truthy(mode.name) THEN mode.name.s
                                                  ELSE PlaceholderName(index))))
                       ELSE f,
             thrown |-> FALSE]
  ELSE IF ~IsString(role)
  THEN [diags |-> <<Error("roleDefinition-type", index)>>,
        fixed |-> IF fixMode THEN SetField(f, "roleDefinition", StringOf(role)) ELSE f,
        thrown |-> FALSE]
  ELSE IF ~Includes(role.s, YouAreRoo)
  THEN [diags |-> <<Warning("lead-in", index)>>,
        fixed |-> IF fixMode /\ ~StartsWith(f.roleDefinition.s, YouAreRoo)
                  THEN SetField(f, "roleDefinition", Str(PrependLeadIn(f.roleDefinition.s)))
                  ELSE f,
        thrown |-> FALSE]
  ELSE [diags |-> << >>, fixed |-> f, thrown |-> FALSE]

\* GroupsValidated without the test `errors.length > 0` around the fix
GroupsValidated_AlwaysFixed(index, fixMode, f, v) ==
  IF v.thrown THEN [diags |-> << >>, fixed |-> f, thrown |-> TRUE]
  ELSE [diags |-> [j \in 1..Len(v.errors) |->
                     Diag("error", v.errors[j].code, index, v.errors[j].at)]
                  \o [j \in 1..Len(v.warnings) |->
                     Diag("warning", v.warnings[j].code, index, v.warnings[j].at)],
        fixed |-> IF fixMode THEN SetField(f, "groups", GroupsArr(v.fixedGroups)) ELSE f,
        thrown |-> FALSE]

\* The groups block after validateGroups has returned v: its errors are
\* printed, then its warnings, and fixedGroups replaces the groups of the
\* fixed mode when there is an error.
GroupsValidated(index, fixMode, f, v) ==
  IF v.thrown THEN [diags |-> << >>, fixed |-> f, thrown |-> TRUE]
  ELSE [diags |-> [j \in 1..Len(v.errors) |->
                     Diag("error", v.errors[j].code, index, v.errors[j].at)]
                  \o [j \in 1..Len(v.warnings) |->
                     Diag("warning", v.warnings[j].code, index, v.warnings[j].at)],
        fixed |-> IF fixMode /\ v.errors # << >>
                  THEN SetField(f, "groups", GroupsArr(v.fixedGroups)) ELSE f,
        thrown |-> FALSE]

\* The groups block; the errors of validateGroups are printed after it has
\* returned, so none is printed when it throws.
GroupsCheck(mode, index, fixMode, f) ==
  IF mode.groups.k = "absent"
  THEN [diags |-> <<Error("groups-missing", index)>>,
        fixed |-> IF fixMode THEN SetField(f, "groups", GroupsArr(<<Bare("read")>>)) ELSE f,
        thrown |-> FALSE]
  ELSE IF mode.groups.k # "arr"
  THEN [diags |-> <<Error("groups-type", index)>>,
        fixed |-> IF fixMode THEN SetField(f, "groups", GroupsArr(<<Bare("read")>>)) ELSE f,
        thrown |-> FALSE]
  ELSE GroupsValidated(index, fixMode, f, validateGroups(mode.groups.items, fixMode))

\* The forEach callback of validateRoomodes after the roleDefinition block
\* (r): the groups block, unless the callback has been left by an exception.
\* diags are the diagnostics printed before r.
AfterRole(mode, index, fixMode, seen, diags, r) ==
  IF r.thrown
  THEN [diags |-> diags \o r.diags, fixed |-> r.fixed, slugs |-> seen, thrown |-> TRUE]
  ELSE [diags |-> diags \o r.diags \o GroupsCheck(mode, index, fixMode, r.fixed).diags,
        fixed |-> GroupsCheck(mode, index, fixMode, r.fixed).fixed,
        slugs |-> seen,
        thrown |-> GroupsCheck(mode, index, fixMode, r.fixed).thrown]

\* ... after the name block (n)
AfterName(mode, index, fixMode, seen, diags, n) ==
  AfterRole(mode, index, fixMode, seen, diags \o n.diags,
            RoleCheck(mode, index, fixMode, n.fixed))

\* ... after the slug block (s)
AfterSlug(mode, index, fixMode, s) ==
  IF s.thrown
  THEN [diags |-> s.diags, fixed |-> s.fixed, slugs |-> s.slugs, thrown |-> TRUE]
  ELSE AfterName(mode, index, fixMode, s.slugs, s.diags,
                 NameCheck(mode, index, fixMode, s.fixed))

\* One call of the forEach callback of validateRoomodes on modesData[index]:
\* the diagnostics printed, the fixed mode stored in fixedContent (fix mode),
\* the slugs seen and whether the callback is left by an exception (reading
\* mode.name throws for a mode that is null).
ModeCheck(mode, index, slugs, fixMode) ==
  IF mode.k = "null"
  THEN [diags |-> << >>, fixed |-> mode, slugs |-> slugs, thrown |-> TRUE]
  ELSE AfterSlug(mode, index, fixMode,
                 SlugCheck(mode, index, slugs, fixMode, JsonCopy(mode)))

\* ------------------------------------------------------------------------
\* Documents
\* ------------------------------------------------------------------------
\* A records container is [k, items] like a groups value.  A document is
\* [top, customModes, modes]: top = "obj" for an object, "null" for null and
\* "prim" for any other JSON value (it has neither property).
NoContainer == [k |-> "absent", items |-> << >>]
NotArrayContainer == [k |-> "other", items |-> << >>]
Container(items) == [k |-> "arr", items |-> items]
Document(cm, md) == [top |-> "obj", customModes |-> cm, modes |-> md]
NonObjectDocument(kind) == [top |-> kind, customModes |-> NoContainer, modes |-> NoContainer]

\* a document value that may be null: fixedContent, result.fixedContent and
\* the content of the output file
NoDoc == [some |-> FALSE, customModes |-> << >>]
SomeDoc(items) == [some |-> TRUE, customModes |-> items]

\* JSON.stringify(fixedContent, null, 2) read back by JSON.parse
Stringify(doc) ==
  SomeDoc([i \in 1..Len(doc.customModes) |-> JsonCopy(doc.customModes[i])])

\* StructureCheck without `hasErrors = true` in the branch of the "modes" key
StructureCheck_AliasNotCounted(doc) ==
  LET cm == doc.customModes
      md == doc.modes
      items == IF cm.k = "absent" /\ md.k = "arr" THEN md.items
               ELSE IF cm.k = "arr" THEN cm.items ELSE << >>
      aliasDiags == IF cm.k = "absent" /\ md.k # "absent"
                    THEN <<Error("modes-key", -1)>> ELSE << >>
  IN IF items = << >>
     THEN [diags |-> aliasDiags \o <<Error("no-modes", -1)>>, modesData |-> << >>,
           hasErrors |-> TRUE, isValid |-> FALSE]
     ELSE [diags |-> aliasDiags, modesData |-> items, hasErrors |-> FALSE,
           isValid |-> TRUE]

\* StructureCheck without `modesData = parsedContent.modes` in the branch of
\* the "modes" key
StructureCheck_AliasNotRead(doc) ==
  LET cm == doc.customModes
      md == doc.modes
      items == IF cm.k = "arr" THEN cm.items ELSE << >>
      diags == IF cm.k = "absent" /\ md.k = "absent" THEN <<Error("container-missing", -1)>>
               ELSE IF cm.k = "absent"
               THEN <<Error("modes-key", -1)>>
                    \o (IF md.k # "arr" THEN <<Error("modes-not-array", -1)>> ELSE << >>)
               ELSE IF cm.k # "arr" THEN <<Error("customModes-not-array", -1)>>
               ELSE << >>
  IN IF items = << >>
     THEN [diags |-> diags \o <<Error("no-modes", -1)>>, modesData |-> << >>,
           hasErrors |-> TRUE, isValid |-> FALSE]
     ELSE [diags |-> diags, modesData |-> items, hasErrors |-> FALSE, isValid |-> TRUE]

\* StructureCheck that takes the records of "modes" when "customModes" is
\* there and is no array
StructureCheck_FallsBackToModes(doc) ==
  LET cm == doc.customModes
      md == doc.modes
      items == IF cm.k = "arr" THEN cm.items
               ELSE IF md.k = "arr" THEN md.items ELSE << >>
      diags == IF cm.k = "absent" /\ md.k = "absent" THEN <<Error("container-missing", -1)>>
               ELSE IF cm.k = "absent"
               THEN <<Error("modes-key", -1)>>
                    \o (IF md.k # "arr" THEN <<Error("modes-not-array", -1)>> ELSE << >>)
               ELSE IF cm.k # "arr" THEN <<Error("customModes-not-array", -1)>>
               ELSE << >>
  IN IF items = << >>
     THEN [diags |-> diags \o <<Error("no-modes", -1)>>, modesData |-> << >>,
           hasErrors |-> TRUE, isValid |-> FALSE]
     ELSE [diags |-> diags, modesData |-> items, hasErrors |-> diags # << >>,
           isValid |-> TRUE]

\* StructureCheck without the check `modesData.length === 0`
StructureCheck_NoEmptyCheck(doc) ==
  LET cm == doc.customModes
      md == doc.modes
  IN IF cm.k = "absent" /\ md.k = "absent"
     THEN [diags |-> <<Error("container-missing", -1)>>, modesData |-> << >>,
           hasErrors |-> TRUE, isValid |-> FALSE]
     ELSE IF cm.k = "absent"
     THEN IF md.k # "arr"
          THEN [diags |-> <<Error("modes-key", -1), Error("modes-not-array", -1)>>,
                modesData |-> << >>, hasErrors |-> TRUE, isValid |-> TRUE]
          ELSE [diags |-> <<Error("modes-key", -1)>>, modesData |-> md.items,
                hasErrors |-> TRUE, isValid |-> TRUE]
     ELSE IF cm.k # "arr"
     THEN [diags |-> <<Error("customModes-not-array", -1)>>, modesData |-> << >>,
           hasErrors |-> TRUE, isValid |-> TRUE]
     ELSE [diags |-> << >>, modesData |-> cm.items, hasErrors |-> FALSE, isValid |-> TRUE]

\* The structure check of validateRoomodes (from `let fixedContent` to the
\* empty-array check): the errors printed, modesData and the two flags.
StructureCheck(doc) ==
  LET cm == doc.customModes
      md == doc.modes
      hasCm == cm.k # "absent"
      hasMd == md.k # "absent"
      first ==
        IF ~hasCm /\ ~hasMd
        THEN [diags |-> <<Error("container-missing", -1)>>, modesData |-> << >>,
              hasErrors |-> TRUE, isValid |-> FALSE]
        ELSE IF hasMd /\ ~hasCm
        THEN IF md.k # "arr"
             THEN [diags |-> <<Error("modes-key", -1), Error("modes-not-array", -1)>>,
                   modesData |-> << >>, hasErrors |-> TRUE, isValid |-> TRUE]
             ELSE [diags |-> <<Error("modes-key", -1)>>, modesData |-> md.items,
                   hasErrors |-> TRUE, isValid |-> TRUE]
        ELSE IF cm.k # "arr"
        THEN [diags |-> <<Error("customModes-not-array", -1)>>, modesData |-> << >>,
              hasErrors |-> TRUE, isValid |-> TRUE]
        ELSE [diags |-> << >>, modesData |-> cm.items, hasErrors |-> FALSE,
              isValid |-> TRUE]
  IN IF first.modesData = << >>
     THEN [diags |-> first.diags \o <<Error("no-modes", -1)>>, modesData |-> << >>,
           hasErrors |-> TRUE, isValid |-> FALSE]
     ELSE first

\* ------------------------------------------------------------------------
\* Input files
\* ------------------------------------------------------------------------
SeqsUpTo(S, n) == UNION {[1..k -> S] : k \in 0..n}

PatChars == {BS, ".", "("}
Patterns == SeqsUpTo(PatChars, MaxPatLen)

RooRole == Str(YouAreRoo \o <<".">>)
SomeText == Str(<<"d">>)
BaseMode == Mode(Str(<<"a">>), Str(<<"A">>), RooRole, GroupsArr(<<Bare("read")>>))

CoreSlugs ==
  {Absent, Str(<<"A">>), Str(<<"a","-","2">>), Str(<<"m","o","d","e","-","2">>),
   Str(<<"!">>), Num(<<"5">>)}
CoreNames == {Absent, Null, Num(<<"5">>)}
CoreRoles == {Str(<<"H","e","l","p">>), Absent, Num(<<"5">>), Arr(<< >>), Obj}
CoreGroups == {NoGroups, NotAnArray, GroupsArr(<< >>), GroupsArr(<<Bare("bogus")>>)}

ScenarioAMode == Mode(Str(<<"A"," ","B">>), Str(<< >>), Absent, NotAnArray)

CoreRecords ==
  {BaseMode}
  \cup {[BaseMode EXCEPT !.slug = v] : v \in CoreSlugs}
  \cup {[BaseMode EXCEPT !.name = v] : v \in CoreNames}
  \cup {[BaseMode EXCEPT !.roleDefinition = v] : v \in CoreRoles}
  \cup {[BaseMode EXCEPT !.groups = v] : v \in CoreGroups}
  \cup {ScenarioAMode,
        [BaseMode EXCEPT !.name = Num(<<"5">>), !.roleDefinition = Absent],
        [BaseMode EXCEPT !.name = Absent, !.groups = GroupsArr(<< >>)],
        [BaseMode EXCEPT !.groups = GroupsArr(<<Pair("edit", NullRestriction)>>)],
        NonObject("null"), NonObject("prim"), NonObject("arr")}

ScenarioBMode ==
  Mode(Str(<<"o","k">>), Str(<<"O","K">>), Str(YouAreRoo \o <<",", " ", "o", "k", ".">>),
       GroupsArr(<<Bare("read")>>))

AliasRecords ==
  {BaseMode, ScenarioBMode,
   [BaseMode EXCEPT !.roleDefinition = Str(<<"H","e","l","p">>)],
   [BaseMode EXCEPT !.name = Absent]}

CoreEntries ==
  {Bare("read"), Bare("bogus"), OtherEntry,
   Pair("edit", Restriction(MatchAll, SomeText)),
   Pair("bogus", Restriction(MatchAll, SomeText)),
   Pair("edit", NoRestriction),
   Pair("edit", NullRestriction),
   Pair("edit", Restriction(Absent, Absent)),
   Pair("edit", Restriction(Str(<<BS, ".">>), SomeText)),
   Pair("edit", Restriction(Arr(<<BS, ".">>), SomeText)),
   Pair("edit", Restriction(Num(<<"5">>), JsonTrue)),
   Pair("bogus", Restriction(Absent, Absent)),
   Pair("edit", Restriction(Arr(<<".">>), Absent))}

PatternEntries == {Pair("edit", Restriction(Str(p), SomeText)) : p \in Patterns}

StructureDocs ==
  {NonObjectDocument("null"), NonObjectDocument("prim"),
   Document(NoContainer, NoContainer),
   Document(NotArrayContainer, NoContainer),
   Document(NoContainer, NotArrayContainer),
   Document(NotArrayContainer, Container(<<BaseMode>>)),
   Document(Container(<<BaseMode>>), Container(<< >>))}

RecordDocs ==
  {Document(Container(ms), NoContainer) : ms \in SeqsUpTo(CoreRecords, MaxModes)}

AliasDocs ==
  {Document(NoContainer, Container(ms)) : ms \in SeqsUpTo(AliasRecords, MaxModes)}

GroupDocs ==
  {Document(Container(<<[BaseMode EXCEPT !.groups = GroupsArr(gs)]>>), NoContainer) :
     gs \in SeqsUpTo(CoreEntries, MaxGroups) \cup {<<e>> : e \in PatternEntries}}

EmptyDocument == Document(NoContainer, NoContainer)
JsonFile(doc) == [kind |-> "json", doc |-> doc]

\* what is at options.filePath: no file, a file that cannot be read, a
\* file that is not JSON, or a JSON document
Files ==
  {[kind |-> kd, doc |-> EmptyDocument] : kd \in {"missing", "unreadable", "badjson"}}
  \cup {JsonFile(d) : d \in StructureDocs \cup RecordDocs \cup AliasDocs \cup GroupDocs}

\* ------------------------------------------------------------------------
\* generate-rooignore.js: estimateTokens and its inputs
\* ------------------------------------------------------------------------
MaxFiles == 2

\* the default of tokenThreshold in main
DefaultThreshold == 45000

\* the size under which estimateTokens reads a file
ReadLimit == 500000

commonBinaryExts ==
  {<<".","e","x","e">>, <<".","d","l","l">>, <<".","s","o">>, <<".","d","y","l","i","b">>,
   <<".","z","i","p">>, <<".","t","a","r">>, <<".","g","z">>, <<".","m","p","4">>,
   <<".","m","p","3">>, <<".","w","a","v">>, <<".","j","p","g">>, <<".","p","n","g">>,
   <<".","g","i","f">>, <<".","p","d","f">>}

\* the index of the last c in s, 0 when there is none
LastIndexOf(s, c) ==
  IF \E i \in 1..Len(s) : s[i] = c
  THEN CHOOSE i \in 1..Len(s) : s[i] = c /\ \A j \in (i + 1)..Len(s) : s[j] # c
  ELSE 0

\* path.basename(p)
BaseName(p) == SliceFrom(p, LastIndexOf(p, "/") + 1)

\* path.extname(p): from the last dot of the base name, unless that dot is
\* its first character
ExtName(p) ==
  LET b == BaseName(p)
      d == LastIndexOf(b, ".")
  IN IF d <= 1 THEN << >> ELSE SliceFrom(b, d)

\* Math.ceil(n / 4)
CeilQuarter(n) == (n + 3) \div 4

\* A file on disk is [path, statOk, size, readable, chars]: path relative to
\* the scanned directory, whether fs.statSync succeeds, stats.size, whether
\* fs.readFileSync succeeds and content.length of what it returns.

\* estimateTokens without the branch that reads the file
estimateTokens_SizeOnly(f) ==
  IF ~f.statOk THEN 0 ELSE CeilQuarter(f.size)

\* estimateTokens(filePath)
estimateTokens(f) ==
  IF ~f.statOk THEN 0
  ELSE IF f.size < ReadLimit /\ ToLowerCase(ExtName(f.path)) \notin commonBinaryExts
  THEN IF f.readable THEN CeilQuarter(f.chars) ELSE CeilQuarter(f.size)
  ELSE CeilQuarter(f.size)

\* path.relative(directory, file).replace(/\\/g, '/')
RelativePath(f) == [i \in 1..Len(f.path) |-> IF f.path[i] = BS THEN "/" ELSE f.path[i]]

FilePaths ==
  {<<"a",".","j","s">>, <<"d","/","b",".","P","N","G">>, <<".","g","i","f">>,
   <<"c",".","g","z">>}

\* what stat and read give: the content of a UTF-8 file has at most one
\* character per byte and at least one per three bytes
FileStats ==
  {[statOk |-> FALSE, size |-> 0, readable |-> FALSE, chars |-> 0],
   [statOk |-> TRUE, size |-> 0, readable |-> TRUE, chars |-> 0],
   [statOk |-> TRUE, size |-> 5, readable |-> TRUE, chars |-> 5],
   [statOk |-> TRUE, size |-> 9, readable |-> TRUE, chars |-> 4],
   [statOk |-> TRUE, size |-> 9, readable |-> FALSE, chars |-> 0],
   [statOk |-> TRUE, size |-> 180004, readable |-> TRUE, chars |-> 180000],
   [statOk |-> TRUE, size |-> ReadLimit - 1, readable |-> TRUE, chars |-> ReadLimit - 4],
   [statOk |-> TRUE, size |-> ReadLimit, readable |-> TRUE, chars |-> ReadLimit - 4],
   [statOk |-> TRUE, size |-> ReadLimit + 1, readable |-> TRUE, chars |-> ReadLimit + 1]}

DiskFiles ==
  {[path |-> p, statOk |-> s.statOk, size |-> s.size, readable |-> s.readable,
    chars |-> s.chars] : p \in FilePaths, s \in FileStats}

\* the lists walkDirectory can return: files with distinct paths
FileLists ==
  {fl \in SeqsUpTo(DiskFiles, MaxFiles) :
     \A i, j \in 1..Len(fl) : i # j => fl[i].path # fl[j].path}

\* the command line: --help, no --threshold option, one whose value parseInt
\* does not read as a number, or one that it reads as the number v
NoArgs == [k |-> "absent", v |-> 0]
Args ==
  {NoArgs, [k |-> "help", v |-> 0], [k |-> "nan", v |-> 0]}
  \cup {[k |-> "int", v |-> v] : v \in {-1, 0, 1, 2, 124999, 125000}}

\* ------------------------------------------------------------------------
\* The .rooignore file of generate-rooignore.js
\* ------------------------------------------------------------------------
\* The content of the file is the sequence of its lines (content.split and
\* lines.join with '\n').  A line is [k, c, p, n]:
\*   "header"   `# Files over ${n} tokens (LLM context overflow prevention)`
\*   "comment"  another line that starts with '#', c being its text and n
\*              the time of a "Generated on" line
\*   "blank"    the empty line
\*   "pattern"  a line that is not empty and does not start with '#': the
\*              pattern or path p
HeaderLine(n) == [k |-> "header", c |-> "", p |-> << >>, n |-> n]
CommentLine(c) == [k |-> "comment", c |-> c, p |-> << >>, n |-> 0]
GeneratedOn(n) == [k |-> "comment", c |-> "Generated on", p |-> << >>, n |-> n]
BlankLine == [k |-> "blank", c |-> "", p |-> << >>, n |-> 0]
PatternLine(p) == [k |-> "pattern", c |-> "", p |-> p, n |-> 0]

\* line.startsWith('#')
StartsWithHash(line) == line.k \in {"header", "comment"}
\* line.trim() === ''
TrimIsEmpty(line) == line.k = "blank"
\* line.includes('# Files over')
IncludesFilesOver(line) ==
  line.k = "header" \/ (line.k = "comment" /\ line.c = "Files over")
\* line.includes('tokens (LLM context overflow prevention)')
IncludesTokensNote(line) ==
  line.k = "header"
  \/ (line.k = "comment" /\ line.c = "tokens (LLM context overflow prevention)")

\* minimalBinaryPatterns of generateRooignore
minimalBinaryPatterns ==
  <<
    <<"*",".","z","i","p">>, <<"*",".","g","z">>, <<"*",".","t","a","r">>,
    <<"*",".","r","a","r">>, <<"*",".","7","z">>, <<"*",".","j","p","g">>,
    <<"*",".","j","p","e","g">>, <<"*",".","p","n","g">>, <<"*",".","g","i","f">>,
    <<"*",".","b","m","p">>, <<"*",".","i","c","o">>, <<"*",".","m","p","4">>,
    <<"*",".","m","o","v">>, <<"*",".","a","v","i">>, <<"*",".","m","p","g">>,
    <<"*",".","m","p","e","g">>, <<"*",".","m","p","3">>, <<"*",".","w","a","v">>,
    <<"*",".","o","g","g">>, <<"*",".","f","l","a","c">>, <<"*",".","a","a","c">>,
    <<"*",".","b","i","n">>, <<"*",".","e","x","e">>, <<"*",".","d","l","l">>,
    <<"*",".","s","o">>, <<"*",".","d","y","l","i","b">>, <<"*",".","p","d","f">>,
    <<"*",".","p","s","d">>, <<"*",".","a","i">>
  >>

\* the lines of a list of paths or patterns
PatternLines(ps) == [i \in 1..Len(ps) |-> PatternLine(ps[i])]

\* The file on disk is [exists, lines].
NoRooignore == [exists |-> FALSE, lines |-> << >>]
RooignoreFile(lines) == [exists |-> TRUE, lines |-> lines]

\* parseExistingRooignore(rooignorePath)
parseExistingRooignore(f) ==
  IF ~f.exists
  THEN [exists |-> FALSE, lines |-> << >>, patterns |-> << >>,
        hasLargeFilesSection |-> FALSE]
  ELSE [exists |-> TRUE,
        lines |-> f.lines,
        patterns |-> [i \in 1..Len(SelectSeq(f.lines, LAMBDA l : l.k = "pattern")) |->
                        SelectSeq(f.lines, LAMBDA l : l.k = "pattern")[i].p],
        hasLargeFilesSection |->
          /\ \E i \in 1..Len(f.lines) : IncludesFilesOver(f.lines[i])
          /\ \E i \in 1..Len(f.lines) : IncludesTokensNote(f.lines[i])]

\* the content of a new file
NewRooignore(tokenThreshold, largeFiles, now) ==
  <<CommentLine("Auto-generated .rooignore file"),
    CommentLine("Files and directories to be ignored by Roo-Code's LLM processing"),
    GeneratedOn(now),
    BlankLine,
    HeaderLine(tokenThreshold)>>
  \o PatternLines(largeFiles)
  \o <<BlankLine, CommentLine("Common binary file patterns")>>
  \o PatternLines(minimalBinaryPatterns)
  \o <<BlankLine, CommentLine("Project-specific patterns")>>

\* `while (j < lines.length)`: the first index from j on (counted from 1) of
\* a line that starts with '#' or is blank, Len(lines) + 1 when there is
\* none
RECURSIVE SkipForward(_, _)
SkipForward(lines, j) ==
  IF j > Len(lines) THEN j
  ELSE IF StartsWithHash(lines[j]) \/ TrimIsEmpty(lines[j]) THEN j
  ELSE SkipForward(lines, j + 1)

\* UpdateLoop with the loop going on after the line that ends the section
RECURSIVE UpdateLoop_SkipsStopper(_, _, _, _, _, _)
UpdateLoop_SkipsStopper(lines, i, tokenThreshold, largeFiles, updatedLines, inserted) ==
  IF i > Len(lines)
  THEN [updatedLines |-> updatedLines, insertedLargeFiles |-> inserted]
  ELSE IF IncludesFilesOver(lines[i]) /\ IncludesTokensNote(lines[i])
  THEN UpdateLoop_SkipsStopper(lines, SkipForward(lines, i + 1) + 1, tokenThreshold, largeFiles,
         updatedLines \o <<HeaderLine(tokenThreshold)>> \o PatternLines(largeFiles)
           \o (IF SkipForward(lines, i + 1) <= Len(lines)
                  /\ TrimIsEmpty(lines[SkipForward(lines, i + 1)])
               THEN <<BlankLine>> ELSE << >>),
         TRUE)
  ELSE UpdateLoop_SkipsStopper(lines, i + 1, tokenThreshold, largeFiles,
                   Append(updatedLines, lines[i]), inserted)

\* The loop `for (let i = 0; i < lines.length; i++)` of the update branch
\* from the line at i on (counted from 1): a header line is replaced by the
\* new header and largeFiles, the entries under it are skipped, '' is pushed
\* when the line that ends them is blank, and the loop goes on at that line.
RECURSIVE UpdateLoop(_, _, _, _, _, _)
UpdateLoop(lines, i, tokenThreshold, largeFiles, updatedLines, inserted) ==
  IF i > Len(lines)
  THEN [updatedLines |-> updatedLines, insertedLargeFiles |-> inserted]
  ELSE IF IncludesFilesOver(lines[i]) /\ IncludesTokensNote(lines[i])
  THEN UpdateLoop(lines, SkipForward(lines, i + 1), tokenThreshold, largeFiles,
         updatedLines \o <<HeaderLine(tokenThreshold)>> \o PatternLines(largeFiles)
           \o (IF SkipForward(lines, i + 1) <= Len(lines)
                  /\ TrimIsEmpty(lines[SkipForward(lines, i + 1)])
               THEN <<BlankLine>> ELSE << >>),
         TRUE)
  ELSE UpdateLoop(lines, i + 1, tokenThreshold, largeFiles,
                   Append(updatedLines, lines[i]), inserted)

\* `while (insertPos < lines.length && lines[insertPos].startsWith('#'))`:
\* the number of lines at the top that start with '#'
RECURSIVE InsertPos(_, _)
InsertPos(lines, n) ==
  IF n < Len(lines) /\ StartsWithHash(lines[n + 1]) THEN InsertPos(lines, n + 1) ELSE n

\* The section put in after the header comments of a file that has none:
\* a blank line first when the comments are followed by a line that is not
\* blank, then the header, largeFiles and a blank line.
InsertSection(lines, tokenThreshold, largeFiles) ==
  SubSeq(lines, 1, InsertPos(lines, 0))
  \o (IF InsertPos(lines, 0) > 0 /\ InsertPos(lines, 0) < Len(lines)
         /\ ~TrimIsEmpty(lines[InsertPos(lines, 0) + 1])
      THEN <<BlankLine>> ELSE << >>)
  \o <<HeaderLine(tokenThreshold)>> \o PatternLines(largeFiles) \o <<BlankLine>>
  \o SubSeq(lines, InsertPos(lines, 0) + 1, Len(lines))

\* the update branch after its loop has given u
UpdatedContent(u, tokenThreshold, largeFiles) ==
  IF u.insertedLargeFiles THEN u.updatedLines
  ELSE InsertSection(u.updatedLines, tokenThreshold, largeFiles)

\* rooignoreContent of generateRooignore, as lines
rooignoreContent(existing, tokenThreshold, largeFiles, now) ==
  IF ~existing.exists
  THEN NewRooignore(tokenThreshold, largeFiles, now)
  ELSE IF existing.hasLargeFilesSection
  THEN UpdatedContent(UpdateLoop(existing.lines, 1, tokenThreshold, largeFiles, << >>, FALSE),
                      tokenThreshold, largeFiles)
  ELSE InsertSection(existing.lines, tokenThreshold, largeFiles)

\* The .rooignore files the directory can hold before the first run: none,
\* the empty file, hand-written files without a section, files whose
\* section is followed by a blank line, by a comment or by nothing, and a
\* file that has the two phrases of the header on different lines.
LogPattern == <<"*",".","l","o","g">>
OldEntry == <<"o","l","d",".","j","s">>
ExistingFiles ==
  {NoRooignore,
   RooignoreFile(<<BlankLine>>),
   RooignoreFile(<<PatternLine(LogPattern)>>),
   RooignoreFile(<<CommentLine("Mine"), PatternLine(LogPattern)>>),
   RooignoreFile(<<CommentLine("Mine"), HeaderLine(1000), PatternLine(OldEntry),
                   BlankLine, CommentLine("Project-specific patterns"),
                   PatternLine(LogPattern)>>),
   RooignoreFile(<<HeaderLine(DefaultThreshold), PatternLine(OldEntry),
                   CommentLine("Mine"), PatternLine(LogPattern)>>),
   RooignoreFile(<<PatternLine(LogPattern), BlankLine, HeaderLine(1)>>),
   RooignoreFile(<<CommentLine("Files over"),
                   CommentLine("tokens (LLM context overflow prevention)"),
                   PatternLine(LogPattern)>>)}

\* the command line tried on a directory that has a .rooignore file: no
\* option, which gives the default threshold
ExistingFileArgs == {NoArgs}

\* ------------------------------------------------------------------------
\* State
\* ------------------------------------------------------------------------
VARIABLES
  file,          \* the input file at options.filePath
  fixMode,       \* options.fix
  pc,            \* "main", "modes", "returned", "exiting", "thrown", "exited"
  modesData,     \* validateRoomodes: modesData
  index,         \* the forEach index of the next mode
  slugs,         \* validateRoomodes: slugs (a Set)
  hasErrors,     \* validateRoomodes: hasErrors
  fixedContent,  \* validateRoomodes: fixedContent (null in check mode)
  result,        \* validateRoomodes: result
  out,           \* what has been printed: diagnostics and status lines
  outFile,       \* the content of the file at options.outputPath, if any
  writes,        \* the number of writes of the output file in this run
  exitCode,      \* the exit code of the process, -1 while it runs
  prev           \* the previous run of the tool, when this is a second run

\* generate-rooignore.js
VARIABLES
  args,            \* main: what the command line holds
  files,           \* generateRooignore: files, the result of walkDirectory
  tokenThreshold,  \* main: tokenThreshold
  processedCount,  \* generateRooignore: processedCount
  largeFiles,      \* generateRooignore: largeFiles
  scanPc,          \* "off", "main", "start", "scan", "scanned", "written", "done"
  rooignore,       \* the .rooignore file of the directory
  existingRooignore, \* generateRooignore: existingRooignore
  run,             \* the number of this run of the tool on the directory
  firstContent     \* the .rooignore file as the first run left it

roomodesVars == <<file, fixMode, pc, modesData, index, slugs, hasErrors, fixedContent,
                  result, out, outFile, writes, exitCode, prev>>

fileVars == <<rooignore, existingRooignore, run, firstContent>>

scanVars == <<args, files, tokenThreshold, processedCount, largeFiles, scanPc, fileVars>>

vars == <<roomodesVars, scanVars>>

\* generate-rooignore.js is not running
ScanOff ==
  /\ args = NoArgs
  /\ files = << >>
  /\ tokenThreshold = DefaultThreshold
  /\ processedCount = 0
  /\ largeFiles = << >>
  /\ scanPc = "off"
  /\ rooignore = NoRooignore
  /\ existingRooignore = parseExistingRooignore(NoRooignore)
  /\ run = 1
  /\ firstContent = NoRooignore

NoPrev == [kind |-> "none", errors |-> << >>, isValid |-> FALSE, exitCode |-> -1,
           returned |-> FALSE]

Status(code) == Diag("status", code, -1, -1)

\* the error diagnostics printed so far, in order
ErrorsOf(o) == SelectSeq(o, LAMBDA d : d.sev = "error")
WarningsOf(o) == SelectSeq(o, LAMBDA d : d.sev = "warning")

Init ==
  /\ file \in Files
  /\ fixMode \in BOOLEAN
  /\ pc = "main"
  /\ modesData = << >>
  /\ index = 0
  /\ slugs = {}
  /\ hasErrors = FALSE
  /\ fixedContent = NoDoc
  /\ result = [isValid |-> TRUE, hasErrors |-> FALSE, fixedContent |-> NoDoc]
  /\ out = << >>
  /\ outFile = NoDoc
  /\ writes = 0
  /\ exitCode = -1
  /\ prev = NoPrev
  /\ ScanOff

\* ------------------------------------------------------------------------
\* Actions
\* ------------------------------------------------------------------------
\* validateRoomodes up to its early returns: the file does not exist, cannot
\* be read or is not JSON.
FailToLoad ==
  /\ pc = "main"
  /\ file.kind # "json"
  /\ out' = <<Error(file.kind, -1)>>
  /\ result' = [isValid |-> FALSE, hasErrors |-> (file.kind = "badjson"),
                fixedContent |-> NoDoc]
  /\ pc' = "returned"
  /\ UNCHANGED <<file, fixMode, modesData, index, slugs, hasErrors, fixedContent,
                 outFile, writes, exitCode, prev>>
  /\ UNCHANGED scanVars

\* validateRoomodes from JSON.parse to the start of the forEach loop; reading
\* parsedContent.customModes throws when the document is null.
CheckStructure ==
  /\ pc = "main"
  /\ file.kind = "json"
  /\ IF file.doc.top = "null"
     THEN /\ pc' = "thrown"
          /\ UNCHANGED <<modesData, hasErrors, fixedContent, result, out>>
     ELSE LET c == StructureCheck(file.doc) IN
          /\ pc' = "modes"
          /\ modesData' = c.modesData
          /\ hasErrors' = c.hasErrors
          /\ fixedContent' = IF fixMode THEN SomeDoc(<< >>) ELSE NoDoc
          /\ result' = [result EXCEPT !.isValid = c.isValid]
          /\ out' = c.diags
  /\ index' = 0
  /\ slugs' = {}
  /\ UNCHANGED <<file, fixMode, outFile, writes, exitCode, prev>>
  /\ UNCHANGED scanVars

\* ModeChecked with the fixed mode stored only for a mode that has an error
ModeChecked_OnlyErrors(c) ==
  /\ out' = out \o c.diags
  /\ hasErrors' = (hasErrors \/ ErrorsOf(c.diags) # << >>)
  /\ slugs' = c.slugs
  /\ IF c.thrown
     THEN /\ pc' = "thrown"
          /\ UNCHANGED <<index, fixedContent>>
     ELSE /\ pc' = "modes"
          /\ index' = index + 1
          /\ fixedContent' = IF fixMode /\ ErrorsOf(c.diags) # << >>
                             THEN SomeDoc(Append(fixedContent.customModes, c.fixed))
                             ELSE fixedContent

\* ModeChecked with the status line printed inside the forEach callback
ModeChecked_StatusPerRecord(c) ==
  /\ out' = out \o c.diags
              \o <<Status(IF hasErrors \/ ErrorsOf(c.diags) # << >>
                          THEN "failed" ELSE "valid")>>
  /\ hasErrors' = (hasErrors \/ ErrorsOf(c.diags) # << >>)
  /\ slugs' = c.slugs
  /\ IF c.thrown
     THEN /\ pc' = "thrown"
          /\ UNCHANGED <<index, fixedContent>>
     ELSE /\ pc' = "modes"
          /\ index' = index + 1
          /\ fixedContent' = IF fixMode
                             THEN SomeDoc(Append(fixedContent.customModes, c.fixed))
                             ELSE fixedContent

\* the effect of one call of the forEach callback, c being its ModeCheck
ModeChecked(c) ==
  /\ out' = out \o c.diags
  /\ hasErrors' = (hasErrors \/ ErrorsOf(c.diags) # << >>)
  /\ slugs' = c.slugs
  /\ IF c.thrown
     THEN /\ pc' = "thrown"
          /\ UNCHANGED <<index, fixedContent>>
     ELSE /\ pc' = "modes"
          /\ index' = index + 1
          /\ fixedContent' = IF fixMode
                             THEN SomeDoc(Append(fixedContent.customModes, c.fixed))
                             ELSE fixedContent

\* one call of the forEach callback of validateRoomodes
ValidateMode ==
  /\ pc = "modes"
  /\ index < Len(modesData)
  /\ ModeChecked(ModeCheck(modesData[index + 1], index, slugs, fixMode))
  /\ UNCHANGED <<file, fixMode, modesData, result, outFile, writes, exitCode, prev>>
  /\ UNCHANGED scanVars

\* FinalResult with the fixed version created in fix mode whether or not
\* an error was found
FinalResult_AlwaysFixed ==
  /\ pc = "modes"
  /\ index = Len(modesData)
  /\ IF hasErrors
     THEN /\ result' = [isValid |-> FALSE, hasErrors |-> TRUE,
                        fixedContent |-> IF fixMode THEN Stringify(fixedContent) ELSE NoDoc]
          /\ out' = Append(out, Status("failed"))
     ELSE /\ result' = [isValid |-> TRUE, hasErrors |-> FALSE,
                        fixedContent |-> IF fixMode THEN Stringify(fixedContent) ELSE NoDoc]
          /\ out' = Append(out, Status("valid"))
  /\ pc' = "returned"
  /\ UNCHANGED <<file, fixMode, modesData, index, slugs, hasErrors, fixedContent,
                 outFile, writes, exitCode, prev>>
  /\ UNCHANGED scanVars

\* validateRoomodes after the loop: the final result
FinalResult ==
  /\ pc = "modes"
  /\ index = Len(modesData)
  /\ LET alias == file.doc.modes.k # "absent" /\ file.doc.customModes.k = "absent" IN
     IF hasErrors
     THEN /\ result' = [isValid |-> FALSE, hasErrors |-> TRUE,
                        fixedContent |-> IF fixMode THEN Stringify(fixedContent) ELSE NoDoc]
          /\ out' = Append(out, Status("failed"))
     ELSE /\ result' = [isValid |-> TRUE, hasErrors |-> FALSE,
                        fixedContent |-> IF fixMode /\ alias
                                         THEN Stringify(SomeDoc(file.doc.modes.items))
                                         ELSE NoDoc]
          /\ out' = Append(out, Status("valid"))
  /\ pc' = "returned"
  /\ UNCHANGED <<file, fixMode, modesData, index, slugs, hasErrors, fixedContent,
                 outFile, writes, exitCode, prev>>
  /\ UNCHANGED scanVars

\* main: writeFixedFile(options.outputPath, result.fixedContent); the write
\* can fail, which is caught and reported
WriteFixedFile ==
  /\ pc = "returned"
  /\ fixMode /\ result.fixedContent.some
  /\ \E ok \in BOOLEAN :
       IF ok
       THEN /\ outFile' = result.fixedContent
            /\ writes' = writes + 1
            /\ out' = Append(out, Status("written"))
       ELSE /\ out' = Append(out, Status("write-failed"))
            /\ UNCHANGED <<outFile, writes>>
  /\ pc' = "exiting"
  /\ UNCHANGED <<file, fixMode, modesData, index, slugs, hasErrors, fixedContent,
                 result, exitCode, prev>>
  /\ UNCHANGED scanVars

\* main: the condition of the write is false
SkipWrite ==
  /\ pc = "returned"
  /\ ~(fixMode /\ result.fixedContent.some)
  /\ pc' = "exiting"
  /\ UNCHANGED <<file, fixMode, modesData, index, slugs, hasErrors, fixedContent,
                 result, out, outFile, writes, exitCode, prev>>
  /\ UNCHANGED scanVars

\* main: process.exit(result.isValid ? 0 : 1)
Exit ==
  /\ pc = "exiting"
  /\ exitCode' = IF result.isValid THEN 0 ELSE 1
  /\ pc' = "exited"
  /\ UNCHANGED <<file, fixMode, modesData, index, slugs, hasErrors, fixedContent,
                 result, out, outFile, writes, prev>>
  /\ UNCHANGED scanVars

\* an exception nothing catches ends the process with exit code 1
UncaughtException ==
  /\ pc = "thrown"
  /\ exitCode' = 1
  /\ pc' = "crashed"
  /\ UNCHANGED <<file, fixMode, modesData, index, slugs, hasErrors, fixedContent,
                 result, out, outFile, writes, prev>>
  /\ UNCHANGED scanVars

\* what a second run remembers of the run that has ended
Ended(kind) ==
  [kind |-> kind, errors |-> ErrorsOf(out), isValid |-> result.isValid,
   exitCode |-> exitCode, returned |-> (pc = "exited")]

Restart ==
  /\ pc' = "main"
  /\ modesData' = << >>
  /\ index' = 0
  /\ slugs' = {}
  /\ hasErrors' = FALSE
  /\ fixedContent' = NoDoc
  /\ result' = [isValid |-> TRUE, hasErrors |-> FALSE, fixedContent |-> NoDoc]
  /\ out' = << >>
  /\ writes' = 0
  /\ exitCode' = -1

\* the tool is run again on the same file with the --fix flag the other way
RunWithOtherFlag ==
  /\ pc \in {"exited", "crashed"}
  /\ prev.kind = "none"
  /\ prev' = Ended("same")
  /\ fixMode' = ~fixMode
  /\ Restart
  /\ UNCHANGED <<file, outFile>>
  /\ UNCHANGED scanVars

\* the tool is run again, without --fix, on the fixed file it has written
RunOnFixedFile ==
  /\ pc = "exited"
  /\ prev.kind = "none"
  /\ writes > 0
  /\ prev' = Ended("fixed")
  /\ file' = JsonFile(Document(Container(outFile.customModes), NoContainer))
  /\ fixMode' = FALSE
  /\ Restart
  /\ UNCHANGED outFile
  /\ UNCHANGED scanVars

Next ==
  \/ FailToLoad
  \/ CheckStructure
  \/ ValidateMode
  \/ FinalResult
  \/ WriteFixedFile
  \/ SkipWrite
  \/ Exit
  \/ UncaughtException
  \/ RunWithOtherFlag
  \/ RunOnFixedFile

Spec == Init /\ [][Next]_vars

\* ------------------------------------------------------------------------
\* generate-rooignore.js: main and the scan of generateRooignore
\* ------------------------------------------------------------------------
\* validate-roomodes.js is not running
RoomodesOff ==
  /\ file = [kind |-> "missing", doc |-> EmptyDocument]
  /\ fixMode = FALSE
  /\ pc = "off"
  /\ modesData = << >>
  /\ index = 0
  /\ slugs = {}
  /\ hasErrors = FALSE
  /\ fixedContent = NoDoc
  /\ result = [isValid |-> TRUE, hasErrors |-> FALSE, fixedContent |-> NoDoc]
  /\ out = << >>
  /\ outFile = NoDoc
  /\ writes = 0
  /\ exitCode = -1
  /\ prev = NoPrev

ScanInit ==
  /\ RoomodesOff
  /\ args \in Args
  /\ files \in FileLists
  /\ tokenThreshold = DefaultThreshold
  /\ processedCount = 0
  /\ largeFiles = << >>
  /\ scanPc = "main"
  /\ rooignore \in ExistingFiles
  /\ rooignore.exists => args \in ExistingFileArgs
  /\ existingRooignore = parseExistingRooignore(NoRooignore)
  /\ run = 1
  /\ firstContent = NoRooignore

\* main up to the call of generateRooignore: --help and a --threshold value
\* that is no number or is not positive end the run
ParseArguments ==
  /\ scanPc = "main"
  /\ IF args.k = "help" \/ args.k = "nan" \/ (args.k = "int" /\ args.v <= 0)
     THEN scanPc' = "done" /\ UNCHANGED tokenThreshold
     ELSE /\ scanPc' = "start"
          /\ tokenThreshold' = IF args.k = "int" THEN args.v ELSE DefaultThreshold
  /\ UNCHANGED <<args, files, processedCount, largeFiles>>
  /\ UNCHANGED fileVars
  /\ UNCHANGED roomodesVars

\* generateRooignore up to the scan: the existing .rooignore is parsed
ReadExisting ==
  /\ scanPc = "start"
  /\ existingRooignore' = parseExistingRooignore(rooignore)
  /\ scanPc' = "scan"
  /\ UNCHANGED <<args, files, tokenThreshold, processedCount, largeFiles,
                 rooignore, run, firstContent>>
  /\ UNCHANGED roomodesVars

\* one pass of the loop `for (const file of files)` of generateRooignore
AnalyzeFile ==
  /\ scanPc = "scan"
  /\ processedCount < Len(files)
  /\ processedCount' = processedCount + 1
  /\ largeFiles' = IF estimateTokens(files[processedCount + 1]) > tokenThreshold
                   THEN Append(largeFiles, RelativePath(files[processedCount + 1]))
                   ELSE largeFiles
  /\ UNCHANGED <<args, files, tokenThreshold, scanPc>>
  /\ UNCHANGED fileVars
  /\ UNCHANGED roomodesVars

\* the loop has gone through files
EndOfScan ==
  /\ scanPc = "scan"
  /\ processedCount = Len(files)
  /\ scanPc' = "scanned"
  /\ UNCHANGED <<args, files, tokenThreshold, processedCount, largeFiles>>
  /\ UNCHANGED fileVars
  /\ UNCHANGED roomodesVars

\* generateRooignore after the scan: rooignoreContent is built and written
\* with fs.writeFileSync; a write that fails is caught and reported.
\* `new Date()` is the number of the run.
WriteRooignore ==
  /\ scanPc = "scanned"
  /\ \E ok \in BOOLEAN :
       IF ok
       THEN /\ rooignore' = RooignoreFile(rooignoreContent(existingRooignore, tokenThreshold,
                                                          largeFiles, run))
            /\ scanPc' = "written"
       ELSE /\ scanPc' = "done"
            /\ UNCHANGED rooignore
  /\ firstContent' = IF run = 1 THEN rooignore' ELSE firstContent
  /\ UNCHANGED <<args, files, tokenThreshold, processedCount, largeFiles,
                 existingRooignore, run>>
  /\ UNCHANGED roomodesVars

\* the tool is run a second time on the directory, whose other files and
\* whose threshold are the same
RunAgain ==
  /\ scanPc = "written"
  /\ run = 1
  /\ run' = 2
  /\ scanPc' = "start"
  /\ processedCount' = 0
  /\ largeFiles' = << >>
  /\ UNCHANGED <<args, files, tokenThreshold, rooignore, existingRooignore, firstContent>>
  /\ UNCHANGED roomodesVars

ScanNext ==
  \/ ParseArguments
  \/ ReadExisting
  \/ AnalyzeFile
  \/ EndOfScan
  \/ WriteRooignore
  \/ RunAgain

ScanSpec == ScanInit /\ [][ScanNext]_vars

\* ------------------------------------------------------------------------
\* Properties
\* ------------------------------------------------------------------------
Ended_ == pc \in {"exited", "crashed"}

\* the fixed document of the run, once validateRoomodes has returned one
Fixed == result.fixedContent.customModes

\* the diagnostics printed for the record at forEach index i
DiagsOfRecord(i) == SelectSeq(out, LAMBDA d : d.rec = i)

\* C1: validating the fixed document that fix mode has produced reports
\* zero errors.
C1_FixedDocumentHasNoErrors ==
  (prev.kind = "fixed" /\ Ended_) => (pc = "exited" /\ ErrorsOf(out) = << >>)

\* the records container is an array (customModes, or modes alone)
ContainerIsArray ==
  /\ file.kind = "json"
  /\ file.doc.top = "obj"
  /\ \/ file.doc.customModes.k = "arr"
     \/ file.doc.customModes.k = "absent" /\ file.doc.modes.k = "arr"

C3_FixFlagIndependence ==
  (prev.kind = "same" /\ pc = "exited" /\ prev.returned) =>
    /\ ErrorsOf(out) = prev.errors
    /\ result.isValid = prev.isValid
    /\ exitCode = prev.exitCode

\* C4: the slugs of the records of a fixed document are pairwise distinct.
C4_FixedSlugsDistinct ==
  result.fixedContent.some =>
    \A i, j \in 1..Len(Fixed) :
       (i < j /\ Fixed[i].k = "obj" /\ Fixed[j].k = "obj") => Fixed[i].slug # Fixed[j].slug

\* two records of the document have the same string as their slug
SharedSlug ==
  \E i, j \in 1..Len(modesData) :
     /\ i < j
     /\ IsString(modesData[i].slug) /\ Truthy(modesData[i].slug)
     /\ modesData[i].slug = modesData[j].slug

\* C5: when two records share a slug, validation reports at least one error
\* and the document is invalid.
C5_DuplicateSlugIsAnError ==
  (Ended_ /\ SharedSlug) => (ErrorsOf(out) # << >> /\ exitCode = 1)

\* a record whose groups array holds one entry, a two-element array with an
\* enumerated tag and an object restriction that has a description and a
\* string fileRegex that compiles
SinglePatternMode(m) ==
  /\ m.k = "obj"
  /\ m.groups.k = "arr"
  /\ Len(m.groups.items) = 1
  /\ m.groups.items[1].k = "pair"
  /\ m.groups.items[1].tag \in VALID_TOOL_GROUPS
  /\ m.groups.items[1].r.k = "obj"
  /\ Truthy(m.groups.items[1].r.description)
  /\ IsString(m.groups.items[1].r.fileRegex)
  /\ Truthy(m.groups.items[1].r.fileRegex)
  /\ RegExpCompiles(m.groups.items[1].r.fileRegex.s)

PatternOf(m) == m.groups.items[1].r.fileRegex.s

\* p has a backslash that is not preceded by a backslash and is followed by
\* a character that is no backslash
HasSingleBackslash(p) ==
  \E i \in 1..(Len(p) - 1) :
     p[i] = BS /\ p[i + 1] # BS /\ (i > 1 => p[i - 1] # BS)

\* p with every backslash doubled
RECURSIVE Doubled(_)
Doubled(p) ==
  IF p = << >> THEN p
  ELSE (IF p[1] = BS THEN <<BS, BS>> ELSE <<p[1]>>) \o Doubled(Tail(p))

\* C6: in fix mode a pattern flagged for invalid escaping is stored in the
\* fixed group with its backslashes doubled: it differs from the input
\* pattern and the escaping check does not flag it.
C6_EscapingIsFixed ==
  (fixMode /\ result.fixedContent.some) =>
    \A i \in 1..Len(modesData) :
       (SinglePatternMode(modesData[i]) /\ HasSingleBackslash(PatternOf(modesData[i]))) =>
          /\ PatternOf(Fixed[i]) # PatternOf(modesData[i])
          /\ ~HasSingleBackslash(PatternOf(Fixed[i]))

C8_FixedGroupsNotEmpty ==
  result.fixedContent.some =>
    \A i \in 1..Len(Fixed) :
       Fixed[i].k = "obj" => (Fixed[i].groups.k = "arr" /\ Fixed[i].groups.items # << >>)

\* a record whose groups array holds exactly one entry, which is invalid
SoleInvalidGroup(m) ==
  /\ m.k = "obj"
  /\ m.groups.k = "arr"
  /\ Len(m.groups.items) = 1
  /\ GroupEntry(m.groups.items[1], 0, FALSE).errors # << >>

\* C9 as stated: the fixed record of a record whose sole group entry is
\* invalid has exactly one group, the default "read".
C9_SoleInvalidGivesDefaultRead ==
  result.fixedContent.some =>
    \A i \in 1..Len(modesData) :
       SoleInvalidGroup(modesData[i]) => Fixed[i].groups = GroupsArr(<<Bare("read")>>)

\* C9 as amended: the fixed record of a record whose sole group entry is
\* invalid has exactly one group, never none: the default "read" when the
\* entry is dropped (a string outside the enumerated set, or a value that is
\* no string and no two-element array) and the repaired two-element entry,
\* with an enumerated tag, when the entry is a two-element array.
C9_SoleInvalidGivesOneGroup ==
  result.fixedContent.some =>
    \A i \in 1..Len(modesData) :
       SoleInvalidGroup(modesData[i]) =>
          /\ Fixed[i].groups.k = "arr"
          /\ Len(Fixed[i].groups.items) = 1
          /\ IF modesData[i].groups.items[1].k = "pair"
             THEN /\ Fixed[i].groups.items[1].k = "pair"
                  /\ Fixed[i].groups.items[1].tag \in VALID_TOOL_GROUPS
                  /\ Fixed[i].groups.items[1].r.k = "obj"
             ELSE Fixed[i].groups.items[1] = Bare("read")

C9_Witness ==
  /\ result.fixedContent.some
  /\ \E i \in 1..Len(modesData) :
        /\ SoleInvalidGroup(modesData[i])
        /\ modesData[i].groups.items[1].k # "pair"
        /\ Fixed[i].groups = GroupsArr(<<Bare("read")>>)

\* C10 as stated: a record with zero errors is in the fixed document equal
\* to the input record, also when warnings were reported for it.
C10_ZeroErrorRecordUntouched ==
  result.fixedContent.some =>
    \A i \in 1..Len(modesData) :
       ErrorsOf(DiagsOfRecord(i - 1)) = << >> => Fixed[i] = modesData[i]

\* C10 as amended: a record with zero errors and zero warnings is in the
\* fixed document equal to the input record; a record with zero errors and
\* the lead-in warning is equal to it but for roleDefinition, which is the
\* input roleDefinition with its first character in lower case after
\* "You are Roo, ".
C10_ZeroErrorRecordOnlyGetsLeadIn ==
  result.fixedContent.some =>
    \A i \in 1..Len(modesData) :
       ErrorsOf(DiagsOfRecord(i - 1)) = << >> =>
          IF WarningsOf(DiagsOfRecord(i - 1)) = << >>
          THEN Fixed[i] = modesData[i]
          ELSE /\ WarningsOf(DiagsOfRecord(i - 1)) = <<Warning("lead-in", i - 1)>>
               /\ Fixed[i] =
                    [modesData[i] EXCEPT !.roleDefinition =
                       Str(YouAreRoo \o <<",", " ">>
                           \o <<LowerChar(Head(modesData[i].roleDefinition.s))>>
                           \o Tail(modesData[i].roleDefinition.s))]

C10_Witness ==
  /\ result.fixedContent.some
  /\ \E i \in 1..Len(modesData) :
        /\ ErrorsOf(DiagsOfRecord(i - 1)) = << >>
        /\ WarningsOf(DiagsOfRecord(i - 1)) # << >>
        /\ Fixed[i] # modesData[i]

\* C11: no run on a file that holds a JSON document is left by an exception:
\* whatever the kinds of its records, fields, group entries and restrictions,
\* validateRoomodes returns and the process exits through process.exit.
C11_NoUncaughtException ==
  file.kind = "json" => pc \notin {"thrown", "crashed"}

\* the check of the forEach callback that prints the diagnostic with this
\* code, named by the field it looks at
CheckOf(code) ==
  CASE code \in {"slug-missing", "slug-format", "slug-duplicate"} -> "slug"
    [] code = "name-missing" -> "name"
    [] code \in {"roleDefinition-missing", "roleDefinition-type", "lead-in"}
         -> "roleDefinition"
    [] OTHER -> "groups"

\* the record ms[i] has a defect that the named check is there to find
CheckFails(check, ms, i) ==
  LET m == ms[i] IN
  CASE check = "slug" ->
         \/ ~Truthy(m.slug)
         \/ ~IsString(m.slug)
         \/ ~MatchesSlugFormat(m.slug.s)
         \/ \E j \in 1..(i - 1) : ms[j].slug = m.slug
    [] check = "name" -> ~Truthy(m.name)
    [] check = "roleDefinition" -> ~Truthy(m.roleDefinition) \/ ~IsString(m.roleDefinition)
    [] OTHER ->
         \/ m.groups.k # "arr"
         \/ \E j \in 1..Len(m.groups.items) :
               \/ GroupEntry(m.groups.items[j], 0, FALSE).errors # << >>
               \/ GroupEntry(m.groups.items[j], 0, FALSE).thrown

\* the checks that fail on ms[i], in the order of the callback
FailedChecks(ms, i) ==
  SelectSeq(<<"slug", "name", "roleDefinition", "groups">>,
            LAMBDA check : CheckFails(check, ms, i))

\* C12: in a run that has ended, the errors printed for a record are one
\* error for each of the slug, name, roleDefinition and groups checks that
\* fails on it, in that order, whichever of the earlier checks failed.
C12_OneErrorPerFailedCheck ==
  Ended_ =>
    \A i \in 1..Len(modesData) :
       [j \in 1..Len(ErrorsOf(DiagsOfRecord(i - 1))) |->
          CheckOf(ErrorsOf(DiagsOfRecord(i - 1))[j].code)]
         = FailedChecks(modesData, i)

\* the roleDefinition of m is a string that is there and lacks "You are Roo"
LacksLeadIn(m) ==
  /\ m.k = "obj"
  /\ IsString(m.roleDefinition) /\ Truthy(m.roleDefinition)
  /\ ~Includes(m.roleDefinition.s, YouAreRoo)

\* C13: a roleDefinition string that lacks "You are Roo" never gets an error
\* about roleDefinition, and gets exactly one warning once the callback has
\* run on its record; a run that returns with warnings and no error has
\* isValid true and exits with code 0.
C13_WarningsNeverAffectValidity ==
  /\ \A i \in 1..Len(modesData) :
        LacksLeadIn(modesData[i]) =>
          /\ \A j \in 1..Len(DiagsOfRecord(i - 1)) :
                DiagsOfRecord(i - 1)[j].sev = "error"
                  => CheckOf(DiagsOfRecord(i - 1)[j].code) # "roleDefinition"
          /\ i <= index => WarningsOf(DiagsOfRecord(i - 1)) = <<Warning("lead-in", i - 1)>>
  /\ (pc \in {"returned", "exiting", "exited"}
        /\ ErrorsOf(out) = << >> /\ WarningsOf(out) # << >>) =>
       /\ result.isValid
       /\ pc = "exited" => exitCode = 0

C13_Witness ==
  /\ pc = "exited" /\ exitCode = 0 /\ ~fixMode
  /\ ErrorsOf(out) = << >>
  /\ \E i \in 1..Len(modesData) :
        LacksLeadIn(modesData[i]) /\ Warning("lead-in", i - 1) \in {out[j] : j \in 1..Len(out)}

\* the file of Scenario A:
\* {"customModes":[{"slug":"A B","name":"","groups":"oops"}]}
IsScenarioA == file = JsonFile(Document(Container(<<ScenarioAMode>>), NoContainer))

\* the codes of the diagnostics printed for the record at forEach index i
CodesOfRecord(i) == [j \in 1..Len(DiagsOfRecord(i)) |-> DiagsOfRecord(i)[j].code]

\* the fixed record of Scenario A has slug "a-b", a name that is a string
\* and groups ["read"]
ScenarioAFixed ==
  /\ Len(Fixed) = 1
  /\ Fixed[1].slug = Str(<<"a", "-", "b">>)
  /\ IsString(Fixed[1].name) /\ Truthy(Fixed[1].name)
  /\ Fixed[1].groups = GroupsArr(<<Bare("read")>>)

\* C14 as stated: Scenario A yields three diagnostics, the slug-format
\* error, the missing-name error and the groups-not-an-array error, and in
\* fix mode the fixed record has slug "a-b", a name and groups ["read"].
C14_ScenarioAThreeErrors ==
  (IsScenarioA /\ pc \in {"returned", "exiting", "exited"}) =>
    /\ CodesOfRecord(0) = <<"slug-format", "name-missing", "groups-type">>
    /\ fixMode => (result.fixedContent.some /\ ScenarioAFixed)

\* C14 as amended: Scenario A yields four errors, the slug-format error, the
\* missing-name error, the missing-roleDefinition error and the
\* groups-not-an-array error, in that order, and in fix mode the fixed record
\* has slug "a-b", the name "A B" made from the slug of the input, the
\* roleDefinition "You are Roo, a mode 1 assistant." and groups ["read"].
C14_ScenarioAFourErrors ==
  (IsScenarioA /\ pc \in {"returned", "exiting", "exited"}) =>
    /\ DiagsOfRecord(0) = <<Error("slug-format", 0), Error("name-missing", 0),
                            Error("roleDefinition-missing", 0), Error("groups-type", 0)>>
    /\ ~result.isValid
    /\ fixMode =>
         /\ result.fixedContent.some
         /\ ScenarioAFixed
         /\ Fixed[1].name = Str(<<"A", " ", "B">>)
         /\ Fixed[1].roleDefinition =
              Str(<<"Y","o","u"," ","a","r","e"," ","R","o","o",","," ","a"," ",
                    "m","o","d","e"," ","1"," ","a","s","s","i","s","t","a","n","t",".">>)

C14_Witness ==
  IsScenarioA /\ fixMode /\ pc = "exited" /\ exitCode = 1 /\ writes = 1

\* the file of Scenario B: {"modes":[{"slug":"ok","name":"OK",
\* "roleDefinition":"You are Roo, ok.","groups":["read"]}]}
IsScenarioB == file = JsonFile(Document(NoContainer, Container(<<ScenarioBMode>>)))

\* the errors and warnings printed so far, without the status lines
DiagnosticsOf(o) == SelectSeq(o, LAMBDA d : d.sev \in {"error", "warning"})

\* C15: Scenario B yields no diagnostic for its record and exactly one
\* diagnostic for the structure, the one for the deprecated key "modes"; in
\* fix mode the fixed document has the record, unchanged, under customModes.
C15_ScenarioBAliasOnly ==
  (IsScenarioB /\ pc \in {"returned", "exiting", "exited"}) =>
    /\ DiagnosticsOf(out) = <<Error("modes-key", -1)>>
    /\ DiagsOfRecord(0) = << >>
    /\ fixMode => (result.fixedContent.some /\ Fixed = <<ScenarioBMode>>)

C15_Witness ==
  /\ IsScenarioB /\ fixMode /\ pc = "exited"
  /\ outFile = SomeDoc(<<ScenarioBMode>>)

\* the document has the records under "modes" and no "customModes"
AliasOnly ==
  file.kind = "json" /\ file.doc.customModes.k = "absent" /\ file.doc.modes.k = "arr"

\* C16: a fixed document has as many records as the record list of the
\* input (customModes, or modes when it stands alone), in the same order:
\* record i of it is of the kind of input record i and has the fields of
\* input record i but for those a diagnostic of record i is about.  The
\* file that is written is this document.
C16_RecordsNeverDiscarded ==
  result.fixedContent.some =>
    /\ Len(Fixed) = Len(modesData)
    /\ \A i \in 1..Len(modesData) :
          /\ Fixed[i].k = modesData[i].k
          /\ \A fld \in {"slug", "name", "roleDefinition", "groups"} :
                Fixed[i][fld] # modesData[i][fld] =>
                  \E j \in 1..Len(DiagsOfRecord(i - 1)) :
                     CheckOf(DiagsOfRecord(i - 1)[j].code) = fld
    /\ writes > 0 => outFile = result.fixedContent

C16_Witness ==
  /\ AliasOnly /\ writes > 0
  /\ Len(modesData) >= 2 /\ Len(outFile.customModes) = Len(modesData)
  /\ outFile.customModes[1] = modesData[1]
  /\ outFile.customModes[2] # modesData[2]

\* the file is a JSON document without a records container that is an
\* array: neither key is there, or the container that is there is no array
StructureBroken == file.kind = "json" /\ ~ContainerIsArray

Fixable(code) == code \notin {"modes-not-array", "customModes-not-array", "no-modes"}

\* C18: the output file is written at most once in a run, and only with
\* --fix and after a diagnostic that fix mode has a fix for; without --fix
\* there is no fixed document and nothing is written.
C18_WrittenOnlyWhenWarranted ==
  /\ writes <= 1
  /\ writes > 0 =>
       /\ fixMode
       /\ \E j \in 1..Len(out) : out[j].sev \in {"error", "warning"} /\ Fixable(out[j].code)
  /\ ~fixMode => (~fixedContent.some /\ ~result.fixedContent.some /\ writes = 0)

\* the records container of the document (customModes, or modes when it
\* stands alone) is an array without elements
EmptyRecordList ==
  /\ ContainerIsArray
  /\ IF file.doc.customModes.k = "arr"
     THEN file.doc.customModes.items = << >>
     ELSE file.doc.modes.items = << >>

\* C19: a document whose customModes array, or modes array when it stands
\* alone, is empty gets the error for an empty list of modes, the result is
\* invalid and the run exits with code 1.
C19_EmptyListIsError ==
  EmptyRecordList =>
    /\ pc \notin {"thrown", "crashed"}
    /\ pc \in {"modes", "returned", "exiting", "exited"} =>
         Error("no-modes", -1) \in {out[j] : j \in 1..Len(out)}
    /\ pc \in {"returned", "exiting", "exited"} => ~result.isValid
    /\ pc = "exited" => exitCode = 1

C19_Witness ==
  /\ EmptyRecordList /\ AliasOnly /\ pc = "exited" /\ exitCode = 1
  /\ ErrorsOf(out) = <<Error("modes-key", -1), Error("no-modes", -1)>>

\* the file has an extension of the list of binary extensions, in any case
BinaryExtension(f) == \E e \in commonBinaryExts : ToLowerCase(ExtName(f.path)) = e

\* the file is estimated above the threshold t: a number of tokens, the
\* quarter of n rounded up, is greater than t exactly when n > 4 * t, with n
\* the number of characters of a readable file under 500000 bytes without a
\* binary extension and the number of bytes of any other file; a file whose
\* stat fails is estimated at 0
EstimatedAbove(f, t) ==
  /\ f.statOk
  /\ IF f.readable /\ f.size < 500000 /\ ~BinaryExtension(f)
     THEN f.chars > 4 * t
     ELSE f.size > 4 * t

\* C20: the large-files list holds, in the order of the scan, the relative
\* paths of exactly the scanned files whose estimate is strictly greater
\* than tokenThreshold; a file whose stat fails is never listed.
C20_LargeFileSelection ==
  scanPc \in {"scan", "scanned"} =>
    /\ largeFiles =
         LET large == SelectSeq(SubSeq(files, 1, processedCount),
                                LAMBDA f : EstimatedAbove(f, tokenThreshold))
         IN [i \in 1..Len(large) |-> large[i].path]
    /\ \A i \in 1..processedCount :
          ~files[i].statOk => \A j \in 1..Len(largeFiles) : largeFiles[j] # files[i].path

C20_Witness ==
  /\ scanPc = "scanned"
  /\ Len(files) = 2 /\ Len(largeFiles) = 1
  /\ files[1].size = 9 /\ files[1].chars = 4 /\ files[1].readable
  /\ ExtName(files[1].path) = <<".", "j", "s">>
  /\ tokenThreshold = 1
  /\ files[2].size = 9 /\ ~files[2].readable
  /\ largeFiles = <<files[2].path>>

\* the entry is one that the fix drops: a string outside the enumerated set,
\* or a value that is no string and no two-element array
DroppedEntry(e) == (e.k = "str" /\ e.tag \notin VALID_TOOL_GROUPS) \/ e.k = "other"

\* the errors of es that are about the entry at forEach index j
ErrorsAt(es, j) == SelectSeq(es, LAMBDA e : e.at = j)

\* the kind and tag of every entry of a list of group entries, a tag
\* outside the enumerated set being read as its fallback "read"
Shapes(gs) ==
  [j \in 1..Len(gs) |->
     <<gs[j].k, IF gs[j].tag \in VALID_TOOL_GROUPS THEN gs[j].tag ELSE "read">>]

\* C22: in fix mode validateGroups returns, on every groups array, with
\* exactly one error for each entry it drops (a string outside the
\* enumerated set, a value that is no string and no two-element array) and
\* with fixedGroups holding every other entry, in the order of the input
\* (a list left empty gets the default "read").
C22_InvalidEntriesDropped ==
  fixMode =>
    \A i \in 1..Len(modesData) :
       modesData[i].groups.k = "arr" =>
         LET gs == modesData[i].groups.items
             kept == SelectSeq(gs, LAMBDA e : ~DroppedEntry(e))
         IN /\ ~validateGroups(gs, TRUE).thrown
            /\ \A j \in 1..Len(gs) :
                  DroppedEntry(gs[j]) =>
                    Len(ErrorsAt(validateGroups(gs, TRUE).errors, j - 1)) = 1
            /\ Shapes(validateGroups(gs, TRUE).fixedGroups)
                 = IF kept = << >> THEN <<(<<"str", "read">>)>> ELSE Shapes(kept)

\* the entry is a two-element array whose restriction is an object
TupleWithObject(e) == e.k = "pair" /\ e.r.k = "obj"

\* the fileRegex of the restriction is there, compiles and has no single
\* backslash
ValidFileRegex(r) ==
  Truthy(r.fileRegex) /\ RegExpCompiles(r.fileRegex.s) /\ ~HasSingleBackslash(r.fileRegex.s)

\* C23: for a two-element entry whose restriction is an object, a tag
\* outside the enumerated set, a missing fileRegex and a missing description
\* each give an error of their own, whatever the other two are, and in fix
\* mode the entry stored has "read" for such a tag, ".*" for a missing
\* fileRegex and "All files" for a missing description, and the input's
\* value for each of the three that is valid.
C23_TupleErrorsIndependent ==
  \A i \in 1..Len(modesData) :
     modesData[i].groups.k = "arr" =>
       \A j \in 1..Len(modesData[i].groups.items) :
          LET e == modesData[i].groups.items[j] IN
          TupleWithObject(e) =>
            /\ ~GroupEntry(e, j - 1, fixMode).thrown
            /\ e.tag \notin VALID_TOOL_GROUPS
                 <=> Len(SelectSeq(GroupEntry(e, j - 1, fixMode).errors,
                                   LAMBDA x : x.code = "group-invalid")) = 1
            /\ ~Truthy(e.r.fileRegex)
                 <=> Len(SelectSeq(GroupEntry(e, j - 1, fixMode).errors,
                                   LAMBDA x : x.code = "fileRegex-missing")) = 1
            /\ ~Truthy(e.r.description)
                 <=> Len(SelectSeq(GroupEntry(e, j - 1, fixMode).errors,
                                   LAMBDA x : x.code = "description-missing")) = 1
            /\ fixMode =>
                 /\ Len(GroupEntry(e, j - 1, TRUE).fixed) = 1
                 /\ GroupEntry(e, j - 1, TRUE).fixed[1].tag
                      = IF e.tag \in {"read", "edit", "browser", "command", "mcp"}
                        THEN e.tag ELSE "read"
                 /\ ~Truthy(e.r.fileRegex) =>
                      GroupEntry(e, j - 1, TRUE).fixed[1].r.fileRegex = Str(<<".", "*">>)
                 /\ ValidFileRegex(e.r) =>
                      GroupEntry(e, j - 1, TRUE).fixed[1].r.fileRegex = e.r.fileRegex
                 /\ GroupEntry(e, j - 1, TRUE).fixed[1].r.description
                      = IF Truthy(e.r.description) THEN e.r.description
                        ELSE Str(<<"A","l","l"," ","f","i","l","e","s">>)

\* all three are missing: three errors are printed and the fixed record has
\* the entry ["read", {fileRegex: ".*", description: "All files"}]
C23_Witness ==
  /\ result.fixedContent.some /\ Len(modesData) = 1
  /\ modesData[1].groups = GroupsArr(<<Pair("bogus", Restriction(Absent, Absent))>>)
  /\ CodesOfRecord(0) = <<"group-invalid", "fileRegex-missing", "description-missing">>
  /\ Fixed[1].groups.items
       = <<Pair("read", Restriction(Str(<<".", "*">>),
                                    Str(<<"A","l","l"," ","f","i","l","e","s">>)))>>

\* the entry is a string of the enumerated set, or a two-element array with
\* a tag of that set and a restriction that has a fileRegex that compiles
\* and a description that is not empty
WellFormedEntry(e) ==
  \/ e.k = "str" /\ e.tag \in {"read", "edit", "browser", "command", "mcp"}
  \/ /\ e.k = "pair"
     /\ e.tag \in {"read", "edit", "browser", "command", "mcp"}
     /\ e.r.k = "obj"
     /\ Truthy(e.r.fileRegex) /\ RegExpCompiles(e.r.fileRegex.s)
     /\ Truthy(e.r.description)

C25_FixedSlugsInCharset ==
  result.fixedContent.some =>
    \A i \in 1..Len(Fixed) :
       Fixed[i].k = "obj" =>
         /\ IsString(Fixed[i].slug)
         /\ Len(Fixed[i].slug.s) > 0
         /\ \A j \in 1..Len(Fixed[i].slug.s) :
               Fixed[i].slug.s[j] \in LowerLetters \cup Digits \cup {"-"}

\* C26: for a record that is an object and whose roleDefinition is missing
\* or is no string, exactly one error about roleDefinition is printed and,
\* in a fixed document, the roleDefinition of the record is a string that
\* is not empty.
C26_FixedRoleDefinitionUsable ==
  result.fixedContent.some =>
    \A i \in 1..Len(modesData) :
       (modesData[i].k = "obj"
          /\ (~Truthy(modesData[i].roleDefinition) \/ ~IsString(modesData[i].roleDefinition))) =>
         /\ Len(SelectSeq(ErrorsOf(DiagsOfRecord(i - 1)),
                          LAMBDA d : CheckOf(d.code) = "roleDefinition")) = 1
         /\ IsString(Fixed[i].roleDefinition)
         /\ Len(Fixed[i].roleDefinition.s) > 0

\* the record list the run works on is the one of the parsed file
InputUnchanged == modesData = StructureCheck(file.doc).modesData

\* C27: a run leaves the parsed document as it was read from the file, and
\* no record of the fixed document built so far holds an array or an object
\* of the input document by reference.
C27_InputNeverShared ==
  pc \in {"modes", "returned", "exiting", "exited"} =>
    /\ InputUnchanged
    /\ \A i \in 1..index : SharedWithInput(modesData[i], fixMode) = {}

\* the aggregate status line of validateRoomodes and the line of the write
IsVerdictLine(d) == d.sev = "status" /\ d.code \in {"failed", "valid"}
IsWriteLine(d) == d.sev = "status" /\ d.code \in {"written", "write-failed"}

\* the order of the lines printed so far
TranscriptInOrder ==
  /\ \A j, k \in 1..Len(out) :
       (out[j].sev \in {"error", "warning"} /\ IsVerdictLine(out[k])) => j < k
  /\ \A k \in 1..Len(out) :
       IsWriteLine(out[k]) => \E j \in 1..(k - 1) : IsVerdictLine(out[j])
  /\ writes > 0 => \E k \in 1..Len(out) : IsWriteLine(out[k])
  /\ exitCode # -1 => pc \in {"exited", "crashed"}

\* a step of a run in which the exit code is already decided
AfterExit == exitCode # -1 /\ prev' = prev

\* C28: every diagnostic of validateRoomodes is printed before the
\* aggregate status line, the status line is printed before the fixed file
\* is written, and after the exit code is decided the run prints nothing
\* and writes nothing.
C28_TranscriptBeforeExit ==
  /\ []TranscriptInOrder
  /\ [][(writes' > writes) => \E j \in 1..Len(out) : IsVerdictLine(out[j])]_vars
  /\ [][AfterExit => UNCHANGED <<out, outFile, writes, exitCode>>]_vars

\* a fix-mode run has ended: two records gave diagnostics, then the status
\* line and the line of the written file were printed
C28_Witness ==
  /\ pc = "exited" /\ writes = 1
  /\ Len(modesData) = 2
  /\ DiagsOfRecord(0) # << >> /\ DiagsOfRecord(1) # << >>
  /\ IsVerdictLine(out[Len(out) - 1])
  /\ out[Len(out)] = Status("written")

RECURSIVE OutsideSection(_, _)
OutsideSection(lines, i) ==
  IF i > Len(lines) THEN << >>
  ELSE IF IncludesFilesOver(lines[i]) /\ IncludesTokensNote(lines[i])
  THEN OutsideSection(lines, SkipForward(lines, i + 1))
  ELSE <<lines[i]>> \o OutsideSection(lines, i + 1)

\* a is b with some of its elements left out
RECURSIVE IsSubseq(_, _)
IsSubseq(a, b) ==
  IF a = << >> THEN TRUE
  ELSE IF b = << >> THEN FALSE
  ELSE IF Head(a) = Head(b) THEN IsSubseq(Tail(a), Tail(b))
  ELSE IsSubseq(a, Tail(b))

NotBlank(lines) == SelectSeq(lines, LAMBDA l : l.k # "blank")

C30_RegenerationIdempotent ==
  (scanPc = "written" /\ run = 2) => rooignore = firstContent

====
